---- MODULE Spec2Model ----
(***************************************************************************)
(* A model of the CAF container decoder (crate caf): the chunk reader      *)
(* CafChunkReader, the chunk decoder decode_chunk and the packet reader    *)
(* CafPacketReader, over a byte source that is a finite sequence of bytes  *)
(* with a position.                                                        *)
(*                                                                         *)
(* Numbers are TLC integers: every source of the model keeps its fields    *)
(* small enough that no u32/i64/u64 of the code leaves TLC's range.        *)
(***************************************************************************)
EXTENDS Integers, Sequences, FiniteSets, TLC

(***************************************************************************)
(* Bounds of the model (not program constants).                            *)
(***************************************************************************)
\* longest chunk sequence of a source
MaxChunks == 4
\* longest packet payload of an audio-data chunk, in bytes
MaxPayload == 10
\* most calls of read_packet_into on one packet reader
MaxReadInto == 1
\* largest index passed to seek_to_packet, besides the current one
MaxTarget == 2
\* most direct calls of read_chunks_to_mem on one chunk reader
MaxScans == 1
\* most calls of next_packet on one packet reader
MaxCalls == 7
\* calls made on the chunk reader directly
MaxChunkCalls == 3
\* the entries kept of the vectors one read_chunks_to_mem call fills: more than any
\* call that returns fills
MaxHeaders == 6

(***************************************************************************)
(* Program constants.                                                      *)
(***************************************************************************)
\* enums.rs, mod chunk_types
AUDIO_DESCRIPTION == 1684370275
AUDIO_DATA == 1684108385
PACKET_TABLE == 1885432692
CHANNEL_LAYOUT == 1667785070
MAGIC_COOKIE == 1802857321
STRINGS == 1936999015
MARKER == 1835102827
REGION == 1919248238
INSTRUMENT == 1768846196
MIDI == 1835623529
OVERVIEW == 1870034551
PEAK == 1885692267
EDIT_COMMENTS == 1701077876
INFO == 1768842863
UNIQUE_MATERIAL_IDENTIFIER == 1970104676
USER_DEFINED == 1970628964
FREE == 1718773093
\* enums.rs, mod format_types
LINEAR_PCM == 1819304813
APPLE_IMA4 == 1768775988
MPEG4_AAC == 1633772320
MACE3 == 1296122675
MACE6 == 1296122678
U_LAW == 1970037111
A_LAW == 1634492791
MPEG_LAYER_1 == 778924081
MPEG_LAYER_2 == 778924082
MPEG_LAYER_3 == 778924083
AAPL_LOSSLESS == 1634492771
\* lib.rs
CAF_HEADER_MAGIC == <<99, 97, 102, 102, 0, 1, 0, 0>>
HEADER_LEN == 12

(***************************************************************************)
(* Options and results.                                                    *)
(***************************************************************************)
None == <<>>
Some(x) == <<x>>
IsSome(o) == Len(o) = 1
Unwrap(o) == o[1]

Min(a, b) == IF a <= b THEN a ELSE b
Max(a, b) == IF a >= b THEN a ELSE b

RECURSIVE SumSeq(_)
SumSeq(s) == IF s = <<>> THEN 0 ELSE s[1] + SumSeq(Tail(s))

\* s without its element at (1-based) index i: Vec::remove
RemoveAt(s, i) == SubSeq(s, 1, i - 1) \o SubSeq(s, i + 1, Len(s))

(***************************************************************************)
(* Big-endian integers, as byteorder reads them.                           *)
(***************************************************************************)
RECURSIVE Horner(_, _)
Horner(acc, bs) == IF bs = <<>> THEN acc ELSE Horner(acc * 256 + bs[1], Tail(bs))

Complement(bs) == [i \in DOMAIN bs |-> 255 - bs[i]]

\* read_u32::<BigEndian>, read_u64
ReadUnsigned(bs) == Horner(0, bs)
\* read_i32 / read_i64::<BigEndian>: two's complement
ReadSigned(bs) ==
    IF bs[1] >= 128 THEN -(Horner(0, Complement(bs)) + 1) ELSE Horner(0, bs)

(***************************************************************************)
(* enums.rs: ChunkType and FormatType. A type is a record: the variant's   *)
(* name and, for Other, the raw code.                                      *)
(***************************************************************************)
Named(n) == [tag |-> n, code |-> 0]
Other(v) == [tag |-> "Other", code |-> v]

ChunkTypeFrom(v) ==
    CASE v = AUDIO_DESCRIPTION -> Named("AudioDescription")
      [] v = AUDIO_DATA -> Named("AudioData")
      [] v = PACKET_TABLE -> Named("PacketTable")
      [] v = CHANNEL_LAYOUT -> Named("ChannelLayout")
      [] v = MAGIC_COOKIE -> Named("MagicCookie")
      [] v = STRINGS -> Named("Strings")
      [] v = MARKER -> Named("Marker")
      [] v = REGION -> Named("Region")
      [] v = INSTRUMENT -> Named("Instrument")
      [] v = MIDI -> Named("Midi")
      [] v = OVERVIEW -> Named("Overview")
      [] v = PEAK -> Named("Peak")
      [] v = EDIT_COMMENTS -> Named("EditComments")
      [] v = INFO -> Named("Info")
      [] v = UNIQUE_MATERIAL_IDENTIFIER -> Named("UniqueMaterialIdentifier")
      [] v = USER_DEFINED -> Named("UserDefined")
      [] v = FREE -> Named("Free")
      [] OTHER -> Other(v)

FormatTypeFrom(v) ==
    CASE v = LINEAR_PCM -> Named("LinearPcm")
      [] v = APPLE_IMA4 -> Named("AppleIma4")
      [] v = MPEG4_AAC -> Named("Mpeg4Aac")
      [] v = MACE3 -> Named("Mace3")
      [] v = MACE6 -> Named("Mace6")
      [] v = U_LAW -> Named("Ulaw")
      [] v = A_LAW -> Named("Alaw")
      [] v = MPEG_LAYER_1 -> Named("MpegLayer1")
      [] v = MPEG_LAYER_2 -> Named("MpegLayer2")
      [] v = MPEG_LAYER_3 -> Named("MpegLayer3")
      [] v = AAPL_LOSSLESS -> Named("AppleLossless")
      [] OTHER -> Other(v)

(***************************************************************************)
(* chunks.rs: decode_chunk. A result is [status, err, v]: status "ok" with *)
(* the value, "err" with the error's name, or "panic".                     *)
(***************************************************************************)
Ok(v) == [status |-> "ok", err |-> "", v |-> v]
Err(e) == [status |-> "err", err |-> e, v |-> <<>>]
Panic == [status |-> "panic", err |-> "", v |-> <<>>]

\* A u64 is its 64 bits, most significant first: a length of the packet table
\* may be any 64-bit value.
U64_BITS == 64
U64Zero == [i \in 1..U64_BITS |-> 0]
\* bit k (0 = least significant) of a small number
BitOf(n, k) == (n \div (2 ^ k)) % 2
\* res <<= 7: the seven highest bits are lost
Shl7(res) == [i \in 1..U64_BITS |-> IF i + 7 <= U64_BITS THEN res[i + 7] ELSE 0]
\* res |= m, for m below 256
OrLow(res, m) ==
    [i \in 1..U64_BITS |-> IF i > U64_BITS - 8 THEN Max(res[i], BitOf(m, U64_BITS - i))
                           ELSE res[i]]
\* byte k (1 = most significant) of a u64
U64Byte(res, k) ==
    LET b(j) == res[8 * (k - 1) + j]
    IN 128 * b(1) + 64 * b(2) + 32 * b(3) + 16 * b(4) + 8 * b(5) + 4 * b(6) + 2 * b(7) + b(8)
\* the number a u64 holds, for the values that are used as sizes
AsSize(res) == ReadUnsigned([k \in 1..8 |-> U64Byte(res, k)])

\* read_vlq keeping the continuation bit in the value
RECURSIVE read_vlq_loop_unmasked(_, _, _)
read_vlq_loop_unmasked(bs, p, res) ==
    IF p >= Len(bs) THEN Err("Io")
    ELSE LET byte == bs[p + 1]
             r == OrLow(Shl7(res), byte)
         IN IF byte < 128 THEN Ok(<<r, p + 1>>) ELSE read_vlq_loop_unmasked(bs, p + 1, r)

\* read_vlq shifting by a whole byte
RECURSIVE read_vlq_loop_shl8(_, _, _)
read_vlq_loop_shl8(bs, p, res) ==
    IF p >= Len(bs) THEN Err("Io")
    ELSE LET byte == bs[p + 1]
             r == OrLow([i \in 1..U64_BITS |-> IF i + 8 <= U64_BITS THEN res[i + 8] ELSE 0],
                        byte % 128)
         IN IF byte < 128 THEN Ok(<<r, p + 1>>) ELSE read_vlq_loop_shl8(bs, p + 1, r)

\* read_vlq on the bytes bs from (0-based) offset p: v is <<value, offset after>>
RECURSIVE read_vlq_loop(_, _, _)
read_vlq_loop(bs, p, res) ==
    IF p >= Len(bs) THEN Err("Io")
    ELSE LET byte == bs[p + 1]
             r == OrLow(Shl7(res), byte % 128)
         IN IF byte < 128 THEN Ok(<<r, p + 1>>) ELSE read_vlq_loop(bs, p + 1, r)

read_vlq(bs, p) == read_vlq_loop(bs, p, U64Zero)

\* the lengths loop of the PacketTable arm: n values from offset p
RECURSIVE read_lengths(_, _, _, _)
read_lengths(bs, p, n, acc) ==
    IF n = 0 THEN Ok(acc)
    ELSE LET b == read_vlq(bs, p)
         IN IF b.status # "ok" THEN b
            ELSE read_lengths(bs, b.v[2], n - 1, Append(acc, AsSize(b.v[1])))

decode_AudioDescription(c) ==
    IF Len(c) < 16 THEN Panic
    ELSE IF Len(c) < 32 THEN Err("Io")
    ELSE Ok([kind |-> "Desc",
             v |-> [sample_rate |-> SubSeq(c, 1, 8),
                    format_id |-> FormatTypeFrom(ReadUnsigned(SubSeq(c, 9, 12))),
                    format_flags |-> ReadUnsigned(SubSeq(c, 13, 16)),
                    bytes_per_packet |-> ReadUnsigned(SubSeq(c, 17, 20)),
                    frames_per_packet |-> ReadUnsigned(SubSeq(c, 21, 24)),
                    channels_per_frame |-> ReadUnsigned(SubSeq(c, 25, 28)),
                    bits_per_channel |-> ReadUnsigned(SubSeq(c, 29, 32))]])

decode_AudioData(c) ==
    IF Len(c) < 4 THEN Panic
    ELSE Ok([kind |-> "AudioDataInMemory",
             v |-> [edit_count |-> ReadUnsigned(SubSeq(c, 1, 4)),
                    data |-> SubSeq(c, 5, Len(c))]])

decode_PacketTable(c) ==
    IF Len(c) < 24 THEN Err("Io")
    ELSE LET num_packets == ReadSigned(SubSeq(c, 1, 8))
         IN IF num_packets < 0 THEN Panic
            ELSE LET ls == read_lengths(c, 24, num_packets, <<>>)
                 IN IF ls.status # "ok" THEN ls
                    ELSE Ok([kind |-> "PacketTable",
                             v |-> [num_valid_frames |-> ReadSigned(SubSeq(c, 9, 16)),
                                    num_priming_frames |-> ReadSigned(SubSeq(c, 17, 20)),
                                    num_remainder_frames |-> ReadSigned(SubSeq(c, 21, 24)),
                                    lengths |-> ls.v]])

decode_MagicCookie(c) == Ok([kind |-> "MagicCookie", v |-> c])

\* the channel descriptions loop of the ChannelLayout arm: n descriptions of 20 bytes
RECURSIVE read_descs(_, _, _, _)
read_descs(c, p, n, acc) ==
    IF n = 0 THEN Ok(acc)
    ELSE IF p + 20 > Len(c) THEN Err("Io")
    ELSE read_descs(c, p + 20, n - 1,
             Append(acc, [channel_label |-> ReadUnsigned(SubSeq(c, p + 1, p + 4)),
                          channel_flags |-> ReadUnsigned(SubSeq(c, p + 5, p + 8)),
                          coordinates |-> <<SubSeq(c, p + 9, p + 12),
                                            SubSeq(c, p + 13, p + 16),
                                            SubSeq(c, p + 17, p + 20)>>]))

decode_ChannelLayout(c) ==
    IF Len(c) < 8 THEN Panic
    ELSE IF Len(c) < 12 THEN Err("Io")
    ELSE LET descs == read_descs(c, 12, ReadUnsigned(SubSeq(c, 9, 12)), <<>>)
         IN IF descs.status # "ok" THEN descs
            ELSE Ok([kind |-> "ChanLayout",
                     v |-> [channel_layout_tag |-> ReadUnsigned(SubSeq(c, 1, 4)),
                            channel_bitmap |-> ReadUnsigned(SubSeq(c, 5, 8)),
                            channel_descriptions |-> descs.v]])

\* BufRead::read_until(0, ..) from offset p: <<bytes read (delimiter included), offset after>>
read_until(c, p) ==
    IF \E i \in (p + 1)..Len(c) : c[i] = 0
    THEN LET i == CHOOSE i \in (p + 1)..Len(c) :
                      c[i] = 0 /\ \A j \in (p + 1)..(i - 1) : c[j] # 0
         IN <<SubSeq(c, p + 1, i), i>>
    ELSE <<SubSeq(c, p + 1, Len(c)), Max(p, Len(c))>>

\* Vec::pop: drops the last byte, if any
pop(s) == IF s = <<>> THEN s ELSE SubSeq(s, 1, Len(s) - 1)

IsCont(b) == b >= 128 /\ b <= 191

\* String::from_utf8 accepts s
RECURSIVE IsUtf8(_)
IsUtf8(s) ==
    IF s = <<>> THEN TRUE
    ELSE LET b == s[1] n == Len(s)
         IN CASE b < 128 -> IsUtf8(Tail(s))
              [] b >= 194 /\ b <= 223 ->
                    n >= 2 /\ IsCont(s[2]) /\ IsUtf8(SubSeq(s, 3, n))
              [] b >= 224 /\ b <= 239 ->
                    /\ n >= 3 /\ IsCont(s[2]) /\ IsCont(s[3])
                    /\ (b = 224 => s[2] >= 160)
                    /\ (b = 237 => s[2] <= 159)
                    /\ IsUtf8(SubSeq(s, 4, n))
              [] b >= 240 /\ b <= 244 ->
                    /\ n >= 4 /\ IsCont(s[2]) /\ IsCont(s[3]) /\ IsCont(s[4])
                    /\ (b = 240 => s[2] >= 144)
                    /\ (b = 244 => s[2] <= 143)
                    /\ IsUtf8(SubSeq(s, 5, n))
              [] OTHER -> FALSE

\* the entries loop of the Info arm: n key/value pairs from offset p
RECURSIVE read_entries(_, _, _, _)
read_entries(c, p, n, acc) ==
    IF n = 0 THEN Ok(acc)
    ELSE LET k == read_until(c, p)
             v == read_until(c, k[2])
             key == pop(k[1])
             val == pop(v[1])
         IN IF ~IsUtf8(key) \/ ~IsUtf8(val) THEN Err("FromUtf8")
            ELSE read_entries(c, v[2], n - 1, Append(acc, <<key, val>>))

decode_Info(c) ==
    IF Len(c) < 4 THEN Err("Io")
    ELSE LET res == read_entries(c, 4, ReadUnsigned(SubSeq(c, 1, 4)), <<>>)
         IN IF res.status # "ok" THEN res ELSE Ok([kind |-> "Info", v |-> res.v])

can_decode_chunk_type(chunk_type) ==
    chunk_type \in {Named("AudioDescription"), Named("AudioData"), Named("PacketTable"),
                    Named("ChannelLayout"), Named("MagicCookie"), Named("Info")}

\* decode_chunk keeping the content of a type it cannot decode as raw bytes
decode_chunk_raw(chunk_type, chunk_content) ==
    CASE chunk_type = Named("AudioDescription") -> decode_AudioDescription(chunk_content)
      [] chunk_type = Named("AudioData") -> decode_AudioData(chunk_content)
      [] chunk_type = Named("PacketTable") -> decode_PacketTable(chunk_content)
      [] chunk_type = Named("ChannelLayout") -> decode_ChannelLayout(chunk_content)
      [] chunk_type = Named("Info") -> decode_Info(chunk_content)
      [] OTHER -> decode_MagicCookie(chunk_content)

\* decode_chunk, v carrying the chunk type for UnsupportedChunkType
decode_chunk(chunk_type, chunk_content) ==
    CASE chunk_type = Named("AudioDescription") -> decode_AudioDescription(chunk_content)
      [] chunk_type = Named("AudioData") -> decode_AudioData(chunk_content)
      [] chunk_type = Named("PacketTable") -> decode_PacketTable(chunk_content)
      [] chunk_type = Named("ChannelLayout") -> decode_ChannelLayout(chunk_content)
      [] chunk_type = Named("MagicCookie") -> decode_MagicCookie(chunk_content)
      [] chunk_type = Named("Info") -> decode_Info(chunk_content)
      [] OTHER -> [Err("UnsupportedChunkType") EXCEPT !.v = <<chunk_type>>]

\* CafChunk::get_type: the chunk type a decoded chunk was decoded from
get_type(ch) ==
    CASE ch.kind = "Desc" -> Named("AudioDescription")
      [] ch.kind = "AudioDataInMemory" -> Named("AudioData")
      [] ch.kind = "PacketTable" -> Named("PacketTable")
      [] ch.kind = "ChanLayout" -> Named("ChannelLayout")
      [] ch.kind = "MagicCookie" -> Named("MagicCookie")
      [] ch.kind = "Info" -> Named("Info")

(***************************************************************************)
(* The state.                                                              *)
(***************************************************************************)
VARIABLES
    file,    \* the bytes of the source
    layout,  \* the chunks the source was written from: [kind, size, body] each
    pos,     \* the source's position (0-based)
    obj,     \* what owns the source: "source", "chunk_reader", "packet_reader", "dead"
    pc,      \* where the running call stands; "idle" between calls
    scan,    \* read_chunks_to_mem's arguments and locals
    fcr,     \* from_chunk_reader's arguments and locals
    rd,      \* the CafPacketReader's fields
    ret,     \* the last call: its name, argument, result and the state it started from
    io,      \* the reads and seeks of the running (or last) call, in order
    hist     \* calls made so far: their numbers, and the call before the last

vars == <<file, layout, pos, obj, pc, scan, fcr, rd, ret, io, hist>>

(***************************************************************************)
(* Writing a source: the encoder side of the wire format, used to build    *)
(* the sources the reader is run on.                                       *)
(***************************************************************************)
RECURSIVE BE(_, _)
BE(n, w) == IF w = 0 THEN <<>> ELSE Append(BE(n \div 256, w - 1), n % 256)

EncSigned(n, w) == IF n >= 0 THEN BE(n, w) ELSE Complement(BE(-n - 1, w))

\* big-endian base 128, every byte but the last with its top bit set
RECURSIVE EncVlqHigh(_)
EncVlqHigh(n) == IF n = 0 THEN <<>> ELSE Append(EncVlqHigh(n \div 128), 128 + (n % 128))
EncVlq(n) == Append(EncVlqHigh(n \div 128), n % 128)

RECURSIVE Flatten(_)
Flatten(ss) == IF ss = <<>> THEN <<>> ELSE ss[1] \o Flatten(Tail(ss))

KindTag(kind) ==
    CASE kind = "desc" -> AUDIO_DESCRIPTION
      [] kind = "data" -> AUDIO_DATA
      [] kind = "pakt" -> PACKET_TABLE
      [] kind = "kuki" -> MAGIC_COOKIE

KindType(kind) == ChunkTypeFrom(KindTag(kind))

DescBody(b, f) ==
    BE(0, 8) \o BE(LINEAR_PCM, 4) \o BE(0, 4) \o BE(b, 4) \o BE(f, 4) \o BE(1, 4) \o BE(16, 4)

\* the first length is written with a redundant leading group (two bytes)
PaktBody(lengths) ==
    EncSigned(Len(lengths), 8) \o EncSigned(4096, 8) \o EncSigned(0, 4) \o EncSigned(-1, 4)
      \o <<128>> \o Flatten([i \in DOMAIN lengths |-> EncVlq(lengths[i])])

\* P payload bytes after the edit count; for P < 0 a body cut short inside the edit count
DataBody(P) ==
    IF P >= 0 THEN BE(258, 4) \o [i \in 1..P |-> 16 + i] ELSE SubSeq(BE(258, 4), 1, 4 + P)

KukiBody(i) == <<170 + i, 187>>

EncodeChunk(c) == BE(KindTag(c.kind), 4) \o EncSigned(c.size, 8) \o c.body

EncodeChunks(cs) == Flatten([i \in DOMAIN cs |-> EncodeChunk(cs[i])])

(***************************************************************************)
(* The sources of the model.                                               *)
(***************************************************************************)
Kinds == {"desc", "pakt", "kuki", "data"}

Count(s, k) == Cardinality({i \in DOMAIN s : s[i] = k})

\* chunk sequences: at most one AudioDescription, PacketTable and AudioData each,
\* and at most two MagicCookies
Orders ==
    {s \in UNION {[1..n -> Kinds] : n \in 1..MaxChunks} :
        /\ Count(s, "desc") <= 1 /\ Count(s, "pakt") <= 1 /\ Count(s, "data") <= 1
        /\ Count(s, "kuki") <= 2}

\* <<bytes_per_packet, frames_per_packet>> of the AudioDescription
DescChoices == {<<2, 1>>, <<0, 1>>, <<2, 0>>}

\* payload lengths of the audio-data chunk
PayloadLens == {MaxPayload - 3, MaxPayload}

\* the packet table's lengths: they sum to MaxPayload
TableLengths == <<3, 5, MaxPayload - 8>>

MkChunk(kind, i, bf, P, unbounded) ==
    LET body == CASE kind = "desc" -> DescBody(bf[1], bf[2])
                  [] kind = "pakt" -> PaktBody(TableLengths)
                  [] kind = "kuki" -> KukiBody(i)
                  [] kind = "data" -> DataBody(P)
    IN [kind |-> kind,
        size |-> IF kind = "data" /\ unbounded THEN -1 ELSE Len(body),
        body |-> body,
        info |-> CASE kind = "desc" -> bf
                   [] kind = "pakt" -> TableLengths
                   [] kind = "kuki" -> KukiBody(i)
                   [] kind = "data" -> <<P, 258>>]

BadMagic == <<99, 97, 102, 102, 0, 2, 0, 0>>

NoScan == [caller |-> "", required0 |-> <<>>, required |-> <<>>, content_read |-> <<>>,
           res |-> <<>>, read_headers |-> <<>>]
NoFcr == [filter_by |-> <<>>, content_read |-> <<>>, chunks_in_mem |-> <<>>,
          read_headers |-> <<>>, audio_desc |-> None, packet_table |-> None,
          audio_chunk_len |-> 0, first_scan |-> <<>>]
NoReader == [audio_desc |-> None, packet_table |-> None, chunks |-> <<>>, edit_count |-> 0,
             audio_chunk_len |-> 0, audio_chunk_offs |-> 0, packet_idx |-> 0]
NoPre == [pos |-> 0, packet_idx |-> 0, audio_chunk_offs |-> 0]
NoRet == [op |-> "", arg |-> <<>>, status |-> "", err |-> "", v |-> <<>>, pre |-> NoPre]
NoHist == [scans |-> 0, next_calls |-> 0, read_into |-> 0, disturbed |-> FALSE,
           failed |-> FALSE, ops |-> 0, prev |-> NoRet]

Init ==
    \E order \in Orders, bf \in DescChoices, P \in PayloadLens \cup {-2},
       unbounded \in BOOLEAN, magic \in BOOLEAN :
        /\ unbounded => order[Len(order)] = "data"
        \* an audio-data chunk of 2 bytes, with another chunk behind it
        /\ P < 0 => /\ bf = <<2, 1>> /\ ~unbounded /\ magic
                    /\ Count(order, "data") = 1 /\ order[Len(order)] # "data"
        /\ ~magic => order = <<"desc">>
        /\ layout = [i \in 1..Len(order) |-> MkChunk(order[i], i, bf, P, unbounded)]
        /\ file = (IF magic THEN CAF_HEADER_MAGIC ELSE BadMagic) \o EncodeChunks(layout)
        /\ pos = 0
        /\ obj = "source"
        /\ pc = "idle"
        /\ scan = NoScan
        /\ fcr = NoFcr
        /\ rd = NoReader
        /\ ret = NoRet
        /\ io = <<>>
        /\ hist = NoHist

(***************************************************************************)
(* The byte source: Read::read_exact and Seek::seek(SeekFrom::Current).    *)
(***************************************************************************)
Avail(p, n) == p + n <= Len(file)
Bytes(p, n) == SubSeq(file, p + 1, p + n)

\* where a failed read_exact may leave the position: how much it read is unspecified
FailPos(p) == {p, Max(p, Len(file))}

\* seek(SeekFrom::Current(n)) from p: an error before the start, allowed past the end
Seek(p, n) == IF p + n < 0 THEN Err("Io") ELSE Ok(p + n)

(***************************************************************************)
(* lib.rs: CafChunkReader.                                                 *)
(***************************************************************************)
Pre == [pos |-> pos, packet_idx |-> rd.packet_idx, audio_chunk_offs |-> rd.audio_chunk_offs]

Ret(op, arg, r) ==
    [op |-> op, arg |-> arg, status |-> r.status, err |-> r.err, v |-> r.v, pre |-> Pre]

\* the magic compared on its chunk tag only
magic_matches_tag(hdr_buf) == SubSeq(hdr_buf, 1, 4) = SubSeq(CAF_HEADER_MAGIC, 1, 4)

\* line 66
magic_matches(hdr_buf) == hdr_buf = CAF_HEADER_MAGIC

\* CafChunkReader::new
New ==
    /\ obj = "source" /\ pc = "idle"
    /\ io' = <<<<"read", pos, 8>>>>
    /\ IF ~Avail(pos, 8)
       THEN /\ obj' = "dead"
            /\ ret' = Ret("new", <<>>, Err("Io"))
            /\ pos' \in FailPos(pos)
       ELSE /\ pos' = pos + 8
            /\ IF ~magic_matches(Bytes(pos, 8))
               THEN obj' = "dead" /\ ret' = Ret("new", <<>>, Err("NotCaf"))
               ELSE obj' = "chunk_reader" /\ ret' = Ret("new", <<>>, Ok(<<>>))
    /\ UNCHANGED <<file, layout, pc, scan, fcr, rd, hist>>

\* read_chunk_header at p: the header and the position after it
read_chunk_header(p) ==
    IF ~Avail(p, HEADER_LEN) THEN Err("Io")
    ELSE Ok([hdr |-> [ch_type |-> ChunkTypeFrom(ReadUnsigned(Bytes(p, 4))),
                      ch_size |-> ReadSigned(Bytes(p + 4, 8))],
             pos |-> p + HEADER_LEN])

\* read_chunk_body at p: the decoded chunk and the position after the body.
\* A size of -1 panics; another negative size panics in vec! (capacity overflow).
read_chunk_body(p, hdr) ==
    IF hdr.ch_size < 0 THEN Panic
    ELSE IF ~Avail(p, hdr.ch_size) THEN Err("Io")
    ELSE LET d == decode_chunk(hdr.ch_type, Bytes(p, hdr.ch_size))
         IN IF d.status # "ok" THEN d
            ELSE Ok([chunk |-> d.v, pos |-> p + hdr.ch_size])

\* to_next_chunk without the test for an unspecified size
to_next_chunk_unchecked(p, hdr) == Seek(p, hdr.ch_size)

\* to_next_chunk at p: the position after the seek
to_next_chunk(p, hdr) ==
    IF hdr.ch_size = -1 THEN Panic ELSE Seek(p, hdr.ch_size)

\* to_previous_chunk seeking forward
to_previous_chunk_forward(p, hdr) ==
    IF hdr.ch_size = -1 THEN Panic ELSE Seek(p, hdr.ch_size)

\* to_previous_chunk at p
to_previous_chunk(p, hdr) ==
    IF hdr.ch_size = -1 THEN Panic ELSE Seek(p, -hdr.ch_size)

\* lines 188-193: the index of the first entry of s equal to x, 0 for None
FirstIndex(s, x) ==
    IF \E i \in DOMAIN s : s[i] = x
    THEN CHOOSE i \in DOMAIN s : s[i] = x /\ \A j \in 1..(i - 1) : s[j] # x
    ELSE 0

\* every chunk counted as asked for, whenever anything is
content_read_any(content_read, ch_type) == content_read # <<>>

\* lines 194-199: whether ch_type is in content_read
content_read_found(content_read, ch_type) ==
    \E i \in DOMAIN content_read : content_read[i] = ch_type

\* line 212: required after the match at required_idx (0 for None)
remove_required(required, required_idx) ==
    IF required_idx = 0 THEN required ELSE RemoveAt(required, required_idx)

\* lines 185-221: one iteration of read_chunks_to_mem's loop at position p with the
\* locals sc. status is "more" (loop again), "done" (break), "err" or "panic";
\* pos is the set of positions the iteration may leave; io is what it read and sought.
ScanIter(p, sc) ==
    LET h == read_chunk_header(p)
    IN IF h.status # "ok"
       THEN [status |-> "err", err |-> h.err, pos |-> FailPos(p), sc |-> sc,
             io |-> <<<<"header", p, HEADER_LEN>>>>]
       ELSE
        LET hdr == h.v.hdr
            q == h.v.pos
            required_idx == FirstIndex(sc.required, hdr.ch_type)
            found == content_read_found(sc.content_read, hdr.ch_type)
            required == remove_required(sc.required, required_idx)
            step == IF found THEN read_chunk_body(q, hdr)
                    ELSE to_next_chunk(q, hdr)
            ev == <<<<"header", p, HEADER_LEN>>>> \o
                  (IF found
                   THEN IF hdr.ch_size < 0 THEN <<>> ELSE <<<<"body", q, hdr.ch_size>>>>
                   ELSE IF hdr.ch_size = -1 THEN <<>> ELSE <<<<"seek", q, hdr.ch_size>>>>)
        IN IF step.status = "ok"
           THEN [status |-> IF required = <<>> THEN "done" ELSE "more",
                 err |-> "",
                 pos |-> {IF found THEN step.v.pos ELSE step.v},
                 sc |-> [sc EXCEPT !.required = required,
                                   !.res = IF found
                                           THEN Append(@, step.v.chunk) ELSE @,
                                   !.read_headers = Append(@, hdr)],
                 io |-> ev]
           ELSE [status |-> step.status,
                 err |-> step.err,
                 pos |-> IF found /\ hdr.ch_size >= 0
                         THEN IF Avail(q, hdr.ch_size) THEN {q + hdr.ch_size}
                              ELSE FailPos(q)
                         ELSE {q},
                 sc |-> [sc EXCEPT !.required = required],
                 io |-> ev]

\* the lists read_chunks_to_mem is called with directly
RequiredChoices ==
    {<<>>, <<KindType("desc")>>, <<KindType("kuki"), KindType("kuki")>>,
     <<KindType("pakt"), KindType("desc")>>}
ContentReadChoices ==
    {<<KindType("desc"), KindType("pakt")>>, <<KindType("kuki")>>}

\* read_chunks_to_mem, called on the chunk reader: lines 179-183
ReadChunksToMemCall ==
    /\ obj = "chunk_reader" /\ pc = "idle"
    /\ hist.scans < MaxScans
    /\ hist' = [hist EXCEPT !.scans = @ + 1]
    /\ \E required \in RequiredChoices, content_read \in ContentReadChoices :
        /\ scan' = [caller |-> "user", required0 |-> required, required |-> required,
                    content_read |-> content_read, res |-> <<>>, read_headers |-> <<>>]
        /\ ret' = [NoRet EXCEPT !.op = "read_chunks_to_mem",
                                !.arg = <<required, content_read>>,
                                !.status = "running", !.pre = Pre]
    /\ pc' = "scan"
    /\ io' = <<>>
    /\ UNCHANGED <<file, layout, pos, obj, fcr, rd>>

\* what is kept of a log: its first n entries
Capped(log, n) == IF Len(log) > n THEN SubSeq(log, 1, n) ELSE log

\* read_chunks_to_mem: one iteration of the loop, and the return to the caller. The
\* vectors res and read_headers grow without bound in a loop that does not end: the
\* first MaxHeaders entries are kept.
ScanStep ==
    /\ pc = "scan"
    /\ \E it \in {[ScanIter(pos, scan) EXCEPT !.sc.read_headers = Capped(@, MaxHeaders),
                                               !.sc.res = Capped(@, MaxHeaders)]} :
          /\ io' = Capped(io \o it.io, 4 * MaxHeaders)
          /\ scan' = it.sc
          /\ pos' \in it.pos
          /\ CASE it.status = "more" -> UNCHANGED <<pc, obj, fcr, ret>>
               [] it.status = "done" /\ scan.caller = "user" ->
                    /\ pc' = "idle"
                    /\ ret' = [ret EXCEPT !.status = "ok",
                                          !.v = <<it.sc.res, it.sc.read_headers>>]
                    /\ UNCHANGED <<obj, fcr>>
               [] it.status = "done" /\ scan.caller = "fcr1" ->
                    /\ pc' = "extract"
                    /\ fcr' = [fcr EXCEPT !.chunks_in_mem = it.sc.res,
                                          !.read_headers = it.sc.read_headers,
                                          !.first_scan = it.sc.res]
                    /\ UNCHANGED <<obj, ret>>
               [] it.status = "done" /\ scan.caller = "fcr2" ->
                    /\ pc' = "extract2"
                    /\ UNCHANGED <<obj, fcr, ret>>
               [] it.status \in {"err", "panic"} ->
                    /\ pc' = "idle"
                    /\ ret' = [ret EXCEPT !.status = it.status, !.err = it.err]
                    /\ obj' = IF it.status = "panic" \/ scan.caller # "user"
                              THEN "dead" ELSE obj
                    /\ UNCHANGED fcr
    /\ UNCHANGED <<file, layout, rd, hist>>

(***************************************************************************)
(* lib.rs: CafPacketReader::from_chunk_reader.                             *)
(***************************************************************************)
FilterChoices == {<<>>, <<KindType("kuki")>>}

\* lines 271-279: the lists of the first read_chunks_to_mem. The chunk reader is a
\* fresh one, as in CafPacketReader::new (lines 257-260).
FromChunkReaderCall ==
    /\ obj = "chunk_reader" /\ pc = "idle"
    /\ hist.scans = 0
    /\ \E filter \in FilterChoices :
        LET filter_by == Append(filter, Named("AudioDescription"))
            content_read == Append(filter_by, Named("PacketTable"))
        IN /\ fcr' = [NoFcr EXCEPT !.filter_by = filter, !.content_read = content_read]
           /\ scan' = [caller |-> "fcr1", required0 |-> filter_by, required |-> filter_by,
                       content_read |-> content_read, res |-> <<>>, read_headers |-> <<>>]
           /\ ret' = [NoRet EXCEPT !.op = "from_chunk_reader", !.arg = filter,
                                   !.status = "running", !.pre = Pre]
    /\ pc' = "scan"
    /\ io' = <<>>
    /\ UNCHANGED <<file, layout, pos, obj, rd, hist>>

\* lines 284-292, 312-318: the index of the last chunk of type t in cm, 0 for None
LastIndex(cm, t) ==
    IF \E i \in DOMAIN cm : get_type(cm[i]) = t
    THEN CHOOSE i \in DOMAIN cm :
             get_type(cm[i]) = t /\ \A j \in (i + 1)..Len(cm) : get_type(cm[j]) # t
    ELSE 0

\* lines 293-300: remove_and_unwrap!(idx, kind) on cm, idx 1-based: the value and the
\* rest of cm; a panic when idx is out of bounds or the chunk there is another kind
remove_and_unwrap(cm, idx, kind) ==
    IF idx < 1 \/ idx > Len(cm) THEN Panic
    ELSE IF cm[idx].kind # kind THEN Panic
    ELSE Ok(<<cm[idx].v, RemoveAt(cm, idx)>>)

\* the table asked for only when the packet size varies
p_table_required_bytes(audio_desc) == audio_desc.bytes_per_packet = 0

\* the table asked for only when the frames per packet are unspecified
p_table_required_frames(audio_desc) == audio_desc.frames_per_packet = 0

\* lines 302-303
p_table_required(audio_desc) ==
    audio_desc.bytes_per_packet = 0 \/ audio_desc.frames_per_packet = 0

\* from_chunk_reader returns r without a reader: the chunk reader is gone with it
FcrFail(r) ==
    /\ pc' = "idle"
    /\ obj' = "dead"
    /\ ret' = [ret EXCEPT !.status = r.status, !.err = r.err]

\* lines 281-309: the special chunks of the first scan
FcrExtract ==
    /\ pc = "extract"
    /\ LET cm == fcr.chunks_in_mem
           audio_desc_idx == LastIndex(cm, Named("AudioDescription"))
           packet_table_idx == LastIndex(cm, Named("PacketTable"))
           d == remove_and_unwrap(cm, audio_desc_idx, "Desc")
       IN IF d.status # "ok"
          THEN FcrFail(Panic) /\ UNCHANGED <<scan, fcr>>
          ELSE
           LET audio_desc == d.v[1]
               cm1 == d.v[2]
               t == remove_and_unwrap(cm1, packet_table_idx, "PacketTable")
           IN IF packet_table_idx # 0
              THEN IF t.status # "ok"
                   THEN FcrFail(Panic) /\ UNCHANGED <<scan, fcr>>
                   ELSE /\ fcr' = [fcr EXCEPT !.audio_desc = Some(audio_desc),
                                              !.packet_table = Some(t.v[1]),
                                              !.chunks_in_mem = t.v[2]]
                        /\ pc' = "navigate"
                        /\ UNCHANGED <<scan, obj, ret>>
              ELSE IF p_table_required(audio_desc)
              THEN /\ fcr' = [fcr EXCEPT !.audio_desc = Some(audio_desc),
                                         !.chunks_in_mem = cm1]
                   /\ scan' = [caller |-> "fcr2",
                               required0 |-> <<Named("PacketTable")>>,
                               required |-> <<Named("PacketTable")>>,
                               content_read |-> fcr.content_read,
                               res |-> <<>>, read_headers |-> <<>>]
                   /\ pc' = "scan"
                   /\ UNCHANGED <<obj, ret>>
              ELSE /\ fcr' = [fcr EXCEPT !.audio_desc = Some(audio_desc),
                                         !.chunks_in_mem = cm1]
                   /\ pc' = "navigate"
                   /\ UNCHANGED <<scan, obj, ret>>
    /\ UNCHANGED <<file, layout, pos, rd, io, hist>>

\* lines 310-319: the packet table of the second scan
FcrExtract2 ==
    /\ pc = "extract2"
    /\ LET cm == fcr.chunks_in_mem \o scan.res
           packet_table_idx == LastIndex(cm, Named("PacketTable"))
           t == remove_and_unwrap(cm, packet_table_idx, "PacketTable")
       IN IF t.status # "ok"
          THEN FcrFail(Panic) /\ UNCHANGED fcr
          ELSE /\ fcr' = [fcr EXCEPT !.packet_table = Some(t.v[1]),
                                     !.chunks_in_mem = t.v[2],
                                     !.read_headers = @ \o scan.read_headers]
               /\ pc' = "navigate"
               /\ UNCHANGED <<obj, ret>>
    /\ UNCHANGED <<file, layout, pos, scan, rd, io, hist>>

\* the loop over read_headers counting the chunks' bodies without their headers
RECURSIVE SeekBackwardsBodies(_, _, _)
SeekBackwardsBodies(hdrs, seek_backwards, audio_chunk_len) ==
    IF hdrs = <<>> THEN <<seek_backwards + HEADER_LEN, audio_chunk_len>>
    ELSE LET hdr == Head(hdrs)
             is_data == hdr.ch_type = Named("AudioData")
         IN SeekBackwardsBodies(Tail(hdrs),
                IF seek_backwards > 0 \/ is_data
                THEN seek_backwards + hdr.ch_size ELSE seek_backwards,
                IF is_data THEN hdr.ch_size ELSE audio_chunk_len)

\* lines 328-339: <<seek_backwards, audio_chunk_len>> after the loop over read_headers
RECURSIVE SeekBackwards(_, _, _)
SeekBackwards(hdrs, seek_backwards, audio_chunk_len) ==
    IF hdrs = <<>> THEN <<seek_backwards, audio_chunk_len>>
    ELSE LET hdr == Head(hdrs)
             is_data == hdr.ch_type = Named("AudioData")
         IN SeekBackwards(Tail(hdrs),
                IF seek_backwards > 0 \/ is_data
                THEN seek_backwards + HEADER_LEN + hdr.ch_size ELSE seek_backwards,
                IF is_data THEN hdr.ch_size ELSE audio_chunk_len)

\* lines 325-347: seek back to an audio chunk already passed, or go on forward
FcrNavigate ==
    /\ pc = "navigate"
    /\ LET n == SeekBackwards(fcr.read_headers, 0, 0)
           s == Seek(pos, -(n[1] - HEADER_LEN))
       IN IF n[1] # 0
          THEN /\ io' = Append(io, <<"seek", pos, -(n[1] - HEADER_LEN)>>)
               /\ IF s.status # "ok"
                  THEN FcrFail(s) /\ UNCHANGED <<fcr, pos>>
                  ELSE /\ pos' = s.v
                       /\ fcr' = [fcr EXCEPT !.audio_chunk_len = n[2]]
                       /\ pc' = "edit_count"
                       /\ UNCHANGED <<obj, ret>>
          ELSE /\ pc' = "forward"
               /\ fcr' = [fcr EXCEPT !.audio_chunk_len = n[2]]
               /\ UNCHANGED <<pos, io, obj, ret>>
    /\ UNCHANGED <<file, layout, scan, rd, hist>>

\* lines 348-356: one iteration of the loop towards the audio chunk ahead
FcrForwardStep ==
    /\ pc = "forward"
    /\ LET h == read_chunk_header(pos)
       IN IF h.status # "ok"
          THEN /\ FcrFail(h)
               /\ io' = Append(io, <<"header_ahead", pos, HEADER_LEN>>)
               /\ pos' \in FailPos(pos)
               /\ UNCHANGED fcr
          ELSE IF h.v.hdr.ch_type = Named("AudioData")
          THEN /\ fcr' = [fcr EXCEPT !.audio_chunk_len = h.v.hdr.ch_size]
               /\ pos' = h.v.pos
               /\ io' = Append(io, <<"header_ahead", pos, HEADER_LEN>>)
               /\ pc' = "edit_count"
               /\ UNCHANGED <<obj, ret>>
          ELSE LET s == to_next_chunk(h.v.pos, h.v.hdr)
               IN IF s.status # "ok"
                  THEN /\ FcrFail(s)
                       /\ io' = Append(io, <<"header_ahead", pos, HEADER_LEN>>)
                       /\ pos' = h.v.pos
                       /\ UNCHANGED fcr
                  ELSE /\ pos' = s.v
                       /\ io' = io \o <<<<"header_ahead", pos, HEADER_LEN>>,
                                        <<"seek", h.v.pos, h.v.hdr.ch_size>>>>
                       /\ UNCHANGED <<pc, fcr, obj, ret>>
    /\ UNCHANGED <<file, layout, scan, rd, hist>>

\* lines 358-373: the edit count, and the reader
FcrReadEditCount ==
    /\ pc = "edit_count"
    /\ io' = Append(io, <<"read", pos, 4>>)
    /\ IF ~Avail(pos, 4)
       THEN /\ FcrFail(Err("Io"))
            /\ pos' \in FailPos(pos)
            /\ UNCHANGED rd
       ELSE /\ pos' = pos + 4
            /\ rd' = [audio_desc |-> Unwrap(fcr.audio_desc),
                      packet_table |-> fcr.packet_table,
                      chunks |-> fcr.chunks_in_mem,
                      edit_count |-> ReadUnsigned(Bytes(pos, 4)),
                      audio_chunk_len |-> fcr.audio_chunk_len,
                      audio_chunk_offs |-> 4,
                      packet_idx |-> 0]
            /\ obj' = "packet_reader"
            /\ pc' = "idle"
            /\ ret' = [ret EXCEPT !.status = "ok"]
    /\ UNCHANGED <<file, layout, scan, fcr, hist>>

(***************************************************************************)
(* lib.rs: CafPacketReader, the packet operations.                         *)
(***************************************************************************)
\* packet_size_is_constant
packet_size_is_constant(r) == r.audio_desc.bytes_per_packet # 0

\* get_packet_idx
get_packet_idx(r) == r.packet_idx

\* next_packet_size refusing a packet that ends exactly at the chunk's end
next_packet_size_early(r) ==
    IF r.audio_desc.bytes_per_packet = 0 /\ ~IsSome(r.packet_table) THEN Panic
    ELSE LET res == IF r.audio_desc.bytes_per_packet = 0
                    THEN IF r.packet_idx < Len(Unwrap(r.packet_table).lengths)
                         THEN Some(Unwrap(r.packet_table).lengths[r.packet_idx + 1])
                         ELSE None
                    ELSE Some(r.audio_desc.bytes_per_packet)
         IN IF res = None THEN Ok(None)
            ELSE IF r.audio_chunk_len # -1
                      /\ r.audio_chunk_offs + Unwrap(res) >= r.audio_chunk_len
                 THEN Ok(None)
                 ELSE Ok(res)

\* next_packet_size taking the size from the table whenever there is one
next_packet_size_table_first(r) ==
    IF r.audio_desc.bytes_per_packet = 0 /\ ~IsSome(r.packet_table) THEN Panic
    ELSE LET res == IF IsSome(r.packet_table)
                    THEN IF r.packet_idx < Len(Unwrap(r.packet_table).lengths)
                         THEN Some(Unwrap(r.packet_table).lengths[r.packet_idx + 1])
                         ELSE None
                    ELSE Some(r.audio_desc.bytes_per_packet)
         IN IF res = None THEN Ok(None)
            ELSE IF r.audio_chunk_len # -1
                      /\ r.audio_chunk_offs + Unwrap(res) > r.audio_chunk_len
                 THEN Ok(None)
                 ELSE Ok(res)

\* next_packet_size: Ok(Some(size)), Ok(None), or the panic of unwrap on no table
next_packet_size(r) ==
    IF r.audio_desc.bytes_per_packet = 0 /\ ~IsSome(r.packet_table) THEN Panic
    ELSE LET res == IF r.audio_desc.bytes_per_packet = 0
                    THEN IF r.packet_idx < Len(Unwrap(r.packet_table).lengths)
                         THEN Some(Unwrap(r.packet_table).lengths[r.packet_idx + 1])
                         ELSE None
                    ELSE Some(r.audio_desc.bytes_per_packet)
         IN IF res = None THEN Ok(None)
            ELSE IF r.audio_chunk_len # -1
                      /\ r.audio_chunk_offs + Unwrap(res) > r.audio_chunk_len
                 THEN Ok(None)
                 ELSE Ok(res)

\* a call on the packet reader that panicked leaves no reader
AfterCall(r) == IF r.status = "panic" THEN "dead" ELSE "packet_reader"

NextPacketSize ==
    /\ obj = "packet_reader" /\ pc = "idle"
    /\ \E s \in {next_packet_size(rd)} :
        /\ ret' = Ret("next_packet_size", <<>>, s)
        /\ obj' = AfterCall(s)
    /\ io' = <<>>
    /\ UNCHANGED <<file, layout, pos, pc, scan, fcr, rd, hist>>

\* next_packet
NextPacket ==
    /\ obj = "packet_reader" /\ pc = "idle"
    /\ hist.next_calls < MaxCalls
    /\ \E s \in {next_packet_size(rd)} :
        IF s.status # "ok" \/ s.v = None
        THEN /\ ret' = Ret("next_packet", <<>>, s)
             /\ obj' = AfterCall(s)
             /\ io' = <<>>
             /\ hist' = [hist EXCEPT !.next_calls = @ + 1]
             /\ UNCHANGED <<pos, rd>>
        ELSE /\ io' = <<<<"read", pos, Unwrap(s.v)>>>>
             /\ obj' = obj
             /\ IF ~Avail(pos, Unwrap(s.v))
                THEN /\ ret' = Ret("next_packet", <<>>, Err("Io"))
                     /\ pos' \in FailPos(pos)
                     /\ hist' = [hist EXCEPT !.next_calls = @ + 1, !.failed = TRUE]
                     /\ UNCHANGED rd
                ELSE /\ ret' = Ret("next_packet", <<>>, Ok(Some(Bytes(pos, Unwrap(s.v)))))
                     /\ pos' = pos + Unwrap(s.v)
                     /\ hist' = [hist EXCEPT !.next_calls = @ + 1]
                     /\ rd' = [rd EXCEPT !.packet_idx = @ + 1,
                                         !.audio_chunk_offs = @ + Unwrap(s.v)]
    /\ UNCHANGED <<file, layout, pc, scan, fcr>>

\* the lengths of the slices read_packet_into is called with
BufLens == {3}

\* read_packet_into advancing the offset and not the cursor
ReadPacketIntoNoCursor ==
    /\ obj = "packet_reader" /\ pc = "idle"
    /\ hist.read_into < MaxReadInto
    /\ hist' = [hist EXCEPT !.read_into = @ + 1, !.disturbed = TRUE]
    /\ \E n \in BufLens :
        /\ io' = <<<<"read", pos, n>>>>
        /\ IF ~Avail(pos, n)
           THEN /\ ret' = Ret("read_packet_into", n, Err("Io"))
                /\ pos' \in FailPos(pos)
                /\ UNCHANGED rd
           ELSE /\ ret' = Ret("read_packet_into", n, Ok(Bytes(pos, n)))
                /\ pos' = pos + n
                /\ rd' = [rd EXCEPT !.audio_chunk_offs = @ + n]
    /\ UNCHANGED <<file, layout, obj, pc, scan, fcr>>

\* read_packet_into
ReadPacketInto ==
    /\ obj = "packet_reader" /\ pc = "idle"
    /\ hist.read_into < MaxReadInto
    /\ hist' = [hist EXCEPT !.read_into = @ + 1, !.disturbed = TRUE]
    /\ \E n \in BufLens :
        /\ io' = <<<<"read", pos, n>>>>
        /\ IF ~Avail(pos, n)
           THEN /\ ret' = Ret("read_packet_into", n, Err("Io"))
                /\ pos' \in FailPos(pos)
                /\ UNCHANGED rd
           ELSE /\ ret' = Ret("read_packet_into", n, Ok(Bytes(pos, n)))
                /\ pos' = pos + n
                /\ rd' = [rd EXCEPT !.packet_idx = @ + 1, !.audio_chunk_offs = @ + n]
    /\ UNCHANGED <<file, layout, obj, pc, scan, fcr>>

\* get_packet_count: the results the builds can give. With audio_chunk_len below 4
\* (and not -1) the usize subtraction underflows: a panic where overflow is checked,
\* else the wrapped value (2^64 + audio_chunk_len - 4) / bytes_per_packet, kept here
\* as <<"wrapped", audio_chunk_len - 4, bytes_per_packet>>.
get_packet_count(r) ==
    IF IsSome(r.packet_table) THEN {Ok(Some(Len(Unwrap(r.packet_table).lengths)))}
    ELSE IF r.audio_desc.bytes_per_packet = 0 THEN {Panic}
    ELSE IF r.audio_chunk_len = -1 THEN {Ok(None)}
    ELSE IF r.audio_chunk_len >= 4
         THEN {Ok(Some((r.audio_chunk_len - 4) \div r.audio_desc.bytes_per_packet))}
         ELSE {Panic, Ok(<<"wrapped", r.audio_chunk_len - 4, r.audio_desc.bytes_per_packet>>)}

GetPacketCount ==
    /\ obj = "packet_reader" /\ pc = "idle"
    /\ \E c \in get_packet_count(rd) :
        /\ ret' = Ret("get_packet_count", <<>>, c)
        /\ obj' = AfterCall(c)
    /\ io' = <<>>
    /\ UNCHANGED <<file, layout, pos, pc, scan, fcr, rd, hist>>

\* line 471
seek_min_idx(cur, packet_idx) == Min(cur, packet_idx)
\* the larger of the two indices
seek_max_idx_larger(cur, packet_idx) == Max(cur, packet_idx)
\* line 472
seek_max_idx(cur, packet_idx) == Min(cur, packet_idx)

\* lines 474-479: the amount to seek by; the slice panics past the table's end
seek_offs(r, min_idx, max_idx) ==
    IF r.audio_desc.bytes_per_packet = 0
    THEN IF ~IsSome(r.packet_table) THEN Panic
         ELSE IF min_idx > max_idx \/ max_idx > Len(Unwrap(r.packet_table).lengths)
         THEN Panic
         ELSE Ok(SumSeq(SubSeq(Unwrap(r.packet_table).lengths, min_idx + 1, max_idx)))
    ELSE Ok((max_idx - min_idx) * r.audio_desc.bytes_per_packet)

\* seek_to_packet
SeekToPacket ==
    /\ obj = "packet_reader" /\ pc = "idle"
    /\ hist' = [hist EXCEPT !.disturbed = TRUE]
    /\ \E packet_idx \in (0..MaxTarget) \cup {rd.packet_idx} :
       \E offs \in {seek_offs(rd, seek_min_idx(rd.packet_idx, packet_idx),
                                  seek_max_idx(rd.packet_idx, packet_idx))} :
        IF offs.status # "ok"
        THEN /\ ret' = Ret("seek_to_packet", packet_idx, offs)
             /\ obj' = AfterCall(offs)
             /\ io' = <<>>
             /\ UNCHANGED pos
        ELSE /\ obj' = obj
             /\ IF rd.packet_idx = packet_idx
                THEN /\ ret' = Ret("seek_to_packet", packet_idx, Ok(<<>>))
                     /\ io' = <<>>
                     /\ UNCHANGED pos
                ELSE \E d \in {IF rd.packet_idx < packet_idx THEN offs.v ELSE -offs.v} :
                     \E s \in {Seek(pos, d)} :
                        /\ io' = <<<<"seek", pos, d>>>>
                        /\ ret' = Ret("seek_to_packet", packet_idx,
                                      IF s.status = "ok" THEN Ok(<<>>) ELSE s)
                        /\ pos' = IF s.status = "ok" THEN s.v ELSE pos
    /\ UNCHANGED <<file, layout, pc, scan, fcr, rd>>

Next ==
    \/ New
    \/ ReadChunksToMemCall
    \/ ScanStep
    \/ FromChunkReaderCall
    \/ FcrExtract
    \/ FcrExtract2
    \/ FcrNavigate
    \/ FcrForwardStep
    \/ FcrReadEditCount
    \/ NextPacketSize
    \/ NextPacket
    \/ ReadPacketInto
    \/ GetPacketCount
    \/ SeekToPacket

Spec == Init /\ [][Next]_vars

(***************************************************************************)
(* What the source holds, read off the chunks it was written from.         *)
(***************************************************************************)
\* the index in layout of the (first) chunk of a kind, 0 if there is none
IndexOf(kind) ==
    IF \E i \in DOMAIN layout : layout[i].kind = kind
    THEN CHOOSE i \in DOMAIN layout :
             layout[i].kind = kind /\ \A j \in 1..(i - 1) : layout[j].kind # kind
    ELSE 0

\* the offset of the header of chunk i (of the end of the source for i = Len + 1)
ChunkStart(i) ==
    Len(CAF_HEADER_MAGIC) + SumSeq([j \in 1..(i - 1) |-> HEADER_LEN + Len(layout[j].body)])

DataChunk == layout[IndexOf("data")]
DataBodyStart == ChunkStart(IndexOf("data")) + HEADER_LEN
DescInfo == layout[IndexOf("desc")].info

\* the bytes of the audio-data body from body offset a, n of them
BodyBytes(a, n) == SubSeq(DataChunk.body, a + 1, a + n)

(***************************************************************************)
(* The chunk reader called directly: read_chunk_header, read_chunk_body,   *)
(* to_next_chunk and to_previous_chunk, on sources whose magic is intact,  *)
(* changed in one byte, or cut short.                                      *)
(***************************************************************************)
\* the first bytes of a source
MagicChoices ==
    {CAF_HEADER_MAGIC}
      \cup {[CAF_HEADER_MAGIC EXCEPT ![i] = (@ + d) % 256] : i \in 1..8, d \in {1, 128}}
      \cup {SubSeq(CAF_HEADER_MAGIC, 1, n) : n \in 0..7}

ChunkOrders == {s \in Orders : Len(s) <= 2}

ChunkInit ==
    \E order \in ChunkOrders, unbounded \in BOOLEAN, magic \in MagicChoices :
        /\ unbounded => order[Len(order)] = "data"
        /\ magic # CAF_HEADER_MAGIC => order = <<"desc">>
        /\ layout = IF Len(magic) < 8 THEN <<>>
                    ELSE [i \in 1..Len(order) |->
                             MkChunk(order[i], i, <<2, 1>>, MaxPayload, unbounded)]
        /\ file = magic \o EncodeChunks(layout)
        /\ pos = 0
        /\ obj = "source"
        /\ pc = "idle"
        /\ scan = NoScan
        /\ fcr = NoFcr
        /\ rd = NoReader
        /\ ret = NoRet
        /\ io = <<>>
        /\ hist = NoHist

\* the headers the caller passes: those of the source's chunks, and an empty Free chunk
HdrChoices ==
    {[ch_type |-> KindType(layout[i].kind), ch_size |-> layout[i].size] : i \in DOMAIN layout}
      \cup {[ch_type |-> Named("Free"), ch_size |-> 0]}

\* the header is passed where read_chunk_body does not decode, or with the position at
\* the body of its chunk: other bytes decoded as a body give numbers beyond the
\* integers of the model
BodyAt(p, hdr) ==
    \/ hdr.ch_size < 0
    \/ ~Avail(p, hdr.ch_size)
    \/ hdr.ch_type = Named("Free")
    \/ \E i \in DOMAIN layout :
          /\ ChunkStart(i) + HEADER_LEN = p
          /\ hdr = [ch_type |-> KindType(layout[i].kind), ch_size |-> layout[i].size]

\* read_chunk_header
ReadChunkHeader ==
    /\ obj = "chunk_reader" /\ pc = "idle"
    /\ hist.ops < MaxChunkCalls
    \* at a chunk's header or where no header is left: other bytes read as a
    \* header give sizes beyond the integers of the model
    /\ ~Avail(pos, HEADER_LEN) \/ \E i \in DOMAIN layout : ChunkStart(i) = pos
    /\ hist' = [hist EXCEPT !.ops = @ + 1, !.prev = ret]
    /\ io' = <<<<"header", pos, HEADER_LEN>>>>
    /\ \E h \in {read_chunk_header(pos)} :
        IF h.status = "ok"
        THEN ret' = Ret("read_chunk_header", <<>>, Ok(h.v.hdr)) /\ pos' = h.v.pos
        ELSE ret' = Ret("read_chunk_header", <<>>, h) /\ pos' \in FailPos(pos)
    /\ UNCHANGED <<file, layout, obj, pc, scan, fcr, rd>>

\* read_chunk_body
ReadChunkBody ==
    /\ obj = "chunk_reader" /\ pc = "idle"
    /\ hist.ops < MaxChunkCalls
    /\ hist' = [hist EXCEPT !.ops = @ + 1, !.prev = ret]
    /\ \E hdr \in {h \in HdrChoices : BodyAt(pos, h)} : \E b \in {read_chunk_body(pos, hdr)} :
        /\ ret' = Ret("read_chunk_body", hdr,
                      IF b.status = "ok" THEN Ok(b.v.chunk) ELSE b)
        /\ IF b.status = "panic"
           THEN obj' = "dead" /\ io' = <<>> /\ pos' = pos
           ELSE /\ obj' = obj
                /\ io' = <<<<"body", pos, hdr.ch_size>>>>
                /\ pos' \in IF Avail(pos, hdr.ch_size) THEN {pos + hdr.ch_size}
                            ELSE FailPos(pos)
    /\ UNCHANGED <<file, layout, pc, scan, fcr, rd>>

\* to_next_chunk
ToNextChunk ==
    /\ obj = "chunk_reader" /\ pc = "idle"
    /\ hist.ops < MaxChunkCalls
    /\ hist' = [hist EXCEPT !.ops = @ + 1, !.prev = ret]
    /\ \E hdr \in HdrChoices : \E r \in {to_next_chunk(pos, hdr)} :
        /\ ret' = Ret("to_next_chunk", hdr, IF r.status = "ok" THEN Ok(<<>>) ELSE r)
        /\ obj' = IF r.status = "panic" THEN "dead" ELSE obj
        /\ io' = IF r.status = "panic" THEN <<>> ELSE <<<<"seek", pos, hdr.ch_size>>>>
        /\ pos' = IF r.status = "ok" THEN r.v ELSE pos
    /\ UNCHANGED <<file, layout, pc, scan, fcr, rd>>

\* to_previous_chunk
ToPreviousChunk ==
    /\ obj = "chunk_reader" /\ pc = "idle"
    /\ hist.ops < MaxChunkCalls
    /\ hist' = [hist EXCEPT !.ops = @ + 1, !.prev = ret]
    /\ \E hdr \in HdrChoices : \E r \in {to_previous_chunk(pos, hdr)} :
        /\ ret' = Ret("to_previous_chunk", hdr, IF r.status = "ok" THEN Ok(<<>>) ELSE r)
        /\ obj' = IF r.status = "panic" THEN "dead" ELSE obj
        /\ io' = IF r.status = "panic" THEN <<>> ELSE <<<<"seek", pos, -hdr.ch_size>>>>
        /\ pos' = IF r.status = "ok" THEN r.v ELSE pos
    /\ UNCHANGED <<file, layout, pc, scan, fcr, rd>>

ChunkNext ==
    \/ New
    \/ ReadChunkHeader
    \/ ReadChunkBody
    \/ ToNextChunk
    \/ ToPreviousChunk

ChunkSpec == ChunkInit /\ [][ChunkNext]_vars

(***************************************************************************)
(* C1. A reader with constant packet size b (frames per packet nonzero),   *)
(* no packet table and an audio-data chunk of bounded length L = b*N + 4:  *)
(* get_packet_count returns N; the k-th of the first N next_packet calls   *)
(* returns the b bytes at body offset 4 + (k-1)*b; every later call        *)
(* returns none.                                                           *)
(***************************************************************************)
C1_Case ==
    /\ obj = "packet_reader"
    /\ rd.packet_table = None
    /\ DescInfo[1] # 0 /\ DescInfo[2] # 0
    /\ DataChunk.size >= 4
    /\ (DataChunk.size - 4) % DescInfo[1] = 0

C1_ConstantPackets ==
    C1_Case =>
        LET b == DescInfo[1]
            N == (DataChunk.size - 4) \div b
            k == hist.next_calls
        IN /\ ret.op = "get_packet_count" => ret.status = "ok" /\ ret.v = Some(N)
           /\ (ret.op = "next_packet" /\ ~hist.disturbed) =>
                 /\ ret.status = "ok"
                 /\ ret.v = IF k <= N THEN Some(BodyBytes(4 + (k - 1) * b, b)) ELSE None

C1_Witness ==
    /\ C1_Case
    /\ ret.op = "next_packet" /\ ~hist.disturbed
    /\ hist.next_calls = (DataChunk.size - 4) \div DescInfo[1] + 1
    /\ hist.next_calls >= 4
    /\ ret.v = None

(***************************************************************************)
(* C2. A reader with bytes_per_packet = 0 and a packet table l_0..l_(n-1)  *)
(* whose sum plus 4 does not exceed the audio-data chunk's length: the     *)
(* (k+1)-th next_packet call returns the l_k bytes at body offset          *)
(* 4 + l_0 + .. + l_(k-1), and the (n+1)-th call returns none.             *)
(***************************************************************************)
C2_Case ==
    /\ obj = "packet_reader"
    /\ DescInfo[1] = 0
    /\ IndexOf("pakt") # 0
    /\ 4 + SumSeq(layout[IndexOf("pakt")].info) <= Len(DataChunk.body)

C2_TablePackets ==
    (C2_Case /\ ret.op = "next_packet" /\ ~hist.disturbed) =>
        LET l == layout[IndexOf("pakt")].info
            k == hist.next_calls
        IN /\ k <= Len(l) =>
                /\ ret.status = "ok"
                /\ ret.v = Some(BodyBytes(4 + SumSeq(SubSeq(l, 1, k - 1)), l[k]))
           /\ k = Len(l) + 1 => ret.status = "ok" /\ ret.v = None

C2_Witness ==
    /\ C2_Case
    /\ ret.op = "next_packet" /\ ~hist.disturbed
    /\ hist.next_calls = Len(layout[IndexOf("pakt")].info) + 1
    /\ hist.next_calls >= 4
    /\ ret.v = None
    /\ rd.audio_chunk_offs = DataChunk.size

\* the total size of packets 0 .. t-1 of reader r
PrefixSize(r, t) ==
    IF r.audio_desc.bytes_per_packet # 0 THEN t * r.audio_desc.bytes_per_packet
    ELSE SumSeq(SubSeq(Unwrap(r.packet_table).lengths, 1,
                       Min(t, Len(Unwrap(r.packet_table).lengths))))

SeekReturnedOk == obj = "packet_reader" /\ ret.op = "seek_to_packet" /\ ret.status = "ok"

(***************************************************************************)
(* C3. After seek_to_packet(target) returns Ok, get_packet_idx() is target *)
(* and the body offset is 4 plus the total size of packets 0 .. target-1.  *)
(***************************************************************************)
C3_SeekLandsOnTarget ==
    SeekReturnedOk =>
        /\ get_packet_idx(rd) = ret.arg
        /\ rd.audio_chunk_offs = 4 + PrefixSize(rd, ret.arg)

(***************************************************************************)
(* C4. seek_to_packet(target) from cursor c moves the position by the      *)
(* total size of the packets between them: forward by the size of packets  *)
(* c .. target-1 when target > c, backward by that of packets              *)
(* target .. c-1 when target < c.                                          *)
(***************************************************************************)
C4_SeekMovesBySpan ==
    SeekReturnedOk =>
        pos - ret.pre.pos = PrefixSize(rd, ret.arg) - PrefixSize(rd, ret.pre.packet_idx)

(***************************************************************************)
(* C5. After from_chunk_reader returns Ok the position is 4 bytes into the *)
(* audio-data body, edit_count is the u32 at the body's start,             *)
(* audio_chunk_len is the chunk's header size, the cursor is 0 and the     *)
(* body offset 4: on the seek-back path (also after a second scan) and on  *)
(* the forward path.                                                       *)
(***************************************************************************)
ConstructedOk == ret.op = "from_chunk_reader" /\ ret.status = "ok"

C5_PositionedAtPackets ==
    ConstructedOk =>
        /\ pos = DataBodyStart + 4
        /\ rd.edit_count = IF Len(DataChunk.body) >= 4 THEN DataChunk.info[2]
                           ELSE ReadUnsigned(Bytes(DataBodyStart, 4))
        /\ rd.audio_chunk_len = DataChunk.size
        /\ rd.packet_idx = 0
        /\ rd.audio_chunk_offs = 4

\* the seek-back path after a second scan
C5_Witness ==
    /\ ConstructedOk
    /\ scan.caller = "fcr2"
    /\ \E i \in DOMAIN io : io[i][1] = "seek" /\ io[i][3] < 0
    /\ pos = DataBodyStart + 4

\* the first scan of from_chunk_reader captured a PacketTable chunk
PaktCapturedFirst ==
    \E i \in DOMAIN fcr.first_scan : fcr.first_scan[i].kind = "PacketTable"

\* what decoding chunk c of the layout gives
ExpectedChunk(c) ==
    CASE c.kind = "desc" ->
            [kind |-> "Desc",
             v |-> [sample_rate |-> <<0, 0, 0, 0, 0, 0, 0, 0>>,
                    format_id |-> Named("LinearPcm"),
                    format_flags |-> 0,
                    bytes_per_packet |-> c.info[1],
                    frames_per_packet |-> c.info[2],
                    channels_per_frame |-> 1,
                    bits_per_channel |-> 16]]
      [] c.kind = "pakt" ->
            [kind |-> "PacketTable",
             v |-> [num_valid_frames |-> 4096, num_priming_frames |-> 0,
                    num_remainder_frames |-> -1, lengths |-> c.info]]
      [] c.kind = "kuki" -> [kind |-> "MagicCookie", v |-> c.info]
      [] c.kind = "data" ->
            [kind |-> "AudioDataInMemory",
             v |-> [edit_count |-> c.info[2], data |-> SubSeq(c.body, 5, Len(c.body))]]

KindsOf(chunks) == [i \in DOMAIN chunks |-> chunks[i].kind]

(***************************************************************************)
(* C6. Whenever the first scan of from_chunk_reader captured a PacketTable *)
(* chunk (and the source holds an audio-data chunk), construction succeeds *)
(* with packet_table that chunk's table, and chunks holds exactly the      *)
(* captured chunks of the caller's types, in stream order.                 *)
(***************************************************************************)
C6_CapturedTableIsUsed ==
    (ret.op = "from_chunk_reader" /\ pc = "idle" /\ PaktCapturedFirst
         /\ IndexOf("data") # 0) =>
        /\ ret.status = "ok"
        /\ rd.packet_table = Some(ExpectedChunk(layout[IndexOf("pakt")]).v)
        /\ rd.chunks = SelectSeq(fcr.first_scan,
                                 LAMBDA ch : ch.kind \notin {"Desc", "PacketTable"})

TableRequired == DescInfo[1] = 0 \/ DescInfo[2] = 0

(***************************************************************************)
(* C7. A constructed reader holds a packet table if and only if            *)
(* bytes_per_packet = 0 or frames_per_packet = 0.                          *)
(***************************************************************************)
C7_TableIffRequired ==
    obj = "packet_reader" => (IsSome(rd.packet_table) <=> TableRequired)

(***************************************************************************)
(* C7, amended. A constructed reader holds a packet table whenever         *)
(* bytes_per_packet = 0 or frames_per_packet = 0; when both are nonzero it *)
(* holds one exactly when the first scan captured a PacketTable chunk; and *)
(* no later operation changes the table the constructor stored.            *)
(***************************************************************************)
C7_TableWhenRequired ==
    obj = "packet_reader" =>
        /\ TableRequired => IsSome(rd.packet_table)
        /\ ~TableRequired => (IsSome(rd.packet_table) <=> PaktCapturedFirst)
        /\ rd.packet_table = fcr.packet_table

C7_Witness ==
    /\ obj = "packet_reader"
    /\ ~TableRequired
    /\ IsSome(rd.packet_table)
    /\ ret.op = "next_packet" /\ ret.status = "ok" /\ ret.v # None

\* the chunk whose header starts at offset p (Len + 1 at the end of the source)
StartIdx(p) == CHOOSE i \in 1..(Len(layout) + 1) : ChunkStart(i) = p

ScanReturnedOk == ret.op = "read_chunks_to_mem" /\ ret.status = "ok"

InList(list, c) == \E i \in DOMAIN list : list[i] = KindType(c.kind)

\* the reads and seeks of a scan passing chunk i
PassEvents(i, captured) ==
    <<<<"header", ChunkStart(i), HEADER_LEN>>,
      <<IF captured THEN "body" ELSE "seek", ChunkStart(i) + HEADER_LEN, layout[i].size>>>>

(***************************************************************************)
(* C8. read_chunks_to_mem(required, capture) returns, in stream order, the *)
(* decoded bodies of exactly the chunks it passed whose type is in         *)
(* capture; it seeks over every other chunk it passed without reading its  *)
(* body; and it reads nothing beyond the chunk that empties required.      *)
(***************************************************************************)
C8_CapturesExactly ==
    ScanReturnedOk =>
        LET s == StartIdx(ret.pre.pos)
            k == Len(ret.v[2])
            passed == SubSeq(layout, s, s + k - 1)
            captured == SelectSeq(passed, LAMBDA c : InList(ret.arg[2], c))
        IN /\ k >= 1 /\ s + k - 1 <= Len(layout)
           /\ KindsOf(ret.v[1]) = [i \in DOMAIN captured |-> ExpectedChunk(captured[i]).kind]
           /\ ret.v[1] = [i \in DOMAIN captured |-> ExpectedChunk(captured[i])]
           /\ io = Flatten([i \in 1..k |->
                       PassEvents(s + i - 1, InList(ret.arg[2], passed[i]))])
           /\ pos = ChunkStart(s + k)
           /\ ret.arg[1] # <<>> => InList(ret.arg[1], passed[k])

\* the scan of [MagicCookie, PacketTable, AudioDescription, AudioData]
C8_Witness ==
    /\ ScanReturnedOk
    /\ KindsOf(layout) = <<"kuki", "pakt", "desc", "data">>
    /\ ret.arg = <<<<KindType("desc")>>, <<KindType("desc"), KindType("pakt")>>>>
    /\ KindsOf(ret.v[1]) = <<"PacketTable", "Desc">>
    /\ pos = ChunkStart(4)

CountIn(s, x) == Cardinality({i \in DOMAIN s : s[i] = x})

\* every entry of required is matched, with multiplicity, among types
Covers(required, types) ==
    \A i \in DOMAIN required : CountIn(types, required[i]) >= CountIn(required, required[i])

HeaderOf(c) == [ch_type |-> KindType(c.kind), ch_size |-> c.size]
HeadersOf(chunks) == [i \in DOMAIN chunks |-> HeaderOf(chunks[i])]
TypesOf(hdrs) == [i \in DOMAIN hdrs |-> hdrs[i].ch_type]

\* while a scan runs, required is what the headers read so far leave of it
RequiredLeft ==
    (scan.caller # "" /\ ret.status \in {"running", "ok"}) =>
        \A i \in DOMAIN scan.required0 :
            LET t == scan.required0[i]
            IN CountIn(scan.required, t)
                 = Max(0, CountIn(scan.required0, t) - CountIn(TypesOf(scan.read_headers), t))

(***************************************************************************)
(* C9. read_chunks_to_mem returns Ok exactly at the first point where      *)
(* every entry of required, counted with multiplicity, has been matched by *)
(* a distinct chunk header; each header removes at most one entry; the     *)
(* returned headers are all the headers read, in stream order.             *)
(***************************************************************************)
C9_ReturnsAtFirstCover ==
    /\ RequiredLeft
    /\ ScanReturnedOk =>
        LET s == StartIdx(ret.pre.pos)
            k == Len(ret.v[2])
            types(j) == TypesOf(HeadersOf(SubSeq(layout, s, s + j - 1)))
        IN /\ ret.v[2] = HeadersOf(SubSeq(layout, s, s + k - 1))
           /\ Cardinality({i \in DOMAIN io : io[i][1] = "header"}) = k
           /\ Covers(ret.arg[1], types(k))
           /\ \A j \in 0..(k - 1) : ~Covers(ret.arg[1], types(j))

\* the last thing the scan did was to read the header of a chunk of size -1
ScanAtUnbounded ==
    /\ scan.caller # ""
    /\ io # <<>>
    /\ io[Len(io)][1] = "header"
    /\ StartIdx(io[Len(io)][2]) <= Len(layout)
    /\ layout[StartIdx(io[Len(io)][2])].size = -1

(***************************************************************************)
(* C10. When read_chunks_to_mem reads a chunk header whose size is -1, the *)
(* scan ends there with an error returned to the caller: the chunk is      *)
(* neither skipped nor read, and no further header is read.                *)
(***************************************************************************)
C10_UnboundedIsAnError ==
    ScanAtUnbounded => pc = "idle" /\ ret.status = "err"

(***************************************************************************)
(* C11. read_chunk_body called with a header of size -1 reads every byte   *)
(* from the position to the end of the source and returns the chunk        *)
(* decoded from them: the case is neither unimplemented nor fatal.         *)
(***************************************************************************)
C11_UnboundedBodyIsRead ==
    (ret.op = "read_chunk_body" /\ ret.arg.ch_size = -1) =>
        /\ ret.status # "panic"
        /\ \E d \in {decode_chunk(ret.arg.ch_type,
                                  Bytes(ret.pre.pos, Max(0, Len(file) - ret.pre.pos)))} :
            /\ ret.status = d.status
            /\ ret.v = d.v
            /\ pos = Max(ret.pre.pos, Len(file))

(***************************************************************************)
(* C12. CafChunkReader::new returns a reader, positioned at byte 8, if and *)
(* only if the first 8 bytes of the source are 63 61 66 66 00 01 00 00;    *)
(* when they differ in some byte it returns NotCaf and no reader exists    *)
(* afterwards; a source shorter than 8 bytes gives an Io error.            *)
(***************************************************************************)
C12_NewChecksMagic ==
    ret.op = "new" =>
        LET long == Len(file) >= 8
            same == long /\ SubSeq(file, 1, 8) = <<99, 97, 102, 102, 0, 1, 0, 0>>
        IN /\ ret.status = "ok" <=> same
           /\ same => obj = "chunk_reader" /\ pos = 8
           /\ (long /\ ~same) => ret.status = "err" /\ ret.err = "NotCaf" /\ obj = "dead"
           /\ ~long => ret.status = "err" /\ ret.err = "Io" /\ obj = "dead"

\* the last byte of the magic alone is changed
C12_Witness ==
    /\ ret.op = "new" /\ ret.err = "NotCaf" /\ obj = "dead"
    /\ {i \in 1..8 : file[i] # CAF_HEADER_MAGIC[i]} = {8}

(***************************************************************************)
(* C13. get_packet_count returns the number of the table's lengths when a  *)
(* table is present; else, with bytes_per_packet # 0 and a bounded         *)
(* audio-data length L, (L - 4) / bytes_per_packet, for every L a reader   *)
(* can be constructed with; else (length -1, no table) None.               *)
(***************************************************************************)
C13_PacketCount ==
    ret.op = "get_packet_count" =>
        LET b == DescInfo[1]
            L == DataChunk.size
        IN /\ ret.status = "ok"
           /\ ret.v = IF IsSome(rd.packet_table)
                      THEN Some(Len(Unwrap(rd.packet_table).lengths))
                      ELSE IF L # -1 THEN Some((L - 4) \div b)
                      ELSE None

(***************************************************************************)
(* C14. next_packet_size returns bytes_per_packet when it is nonzero, else *)
(* the table's length at the cursor, or none at or past the table's end;   *)
(* with a bounded audio-data length L it returns none exactly when         *)
(* offset + size > L; it changes neither cursor, offset nor position.      *)
(***************************************************************************)
C14_NextPacketSize ==
    ret.op = "next_packet_size" =>
        LET b == DescInfo[1]
            L == DataChunk.size
            c == ret.pre.packet_idx
            offs == ret.pre.audio_chunk_offs
            cand == IF b # 0 THEN Some(b)
                    ELSE IF c < Len(layout[IndexOf("pakt")].info)
                         THEN Some(layout[IndexOf("pakt")].info[c + 1])
                         ELSE None
        IN /\ ret.status = "ok"
           /\ ret.v = IF cand # None /\ L # -1 /\ offs + Unwrap(cand) > L THEN None ELSE cand
           /\ rd.packet_idx = c /\ rd.audio_chunk_offs = offs
           /\ pos = ret.pre.pos /\ io = <<>>

\* a packet that ends exactly at the end of the chunk is still reported
C14_Witness ==
    /\ ret.op = "next_packet_size"
    /\ ret.v # None
    /\ ret.pre.packet_idx > 0
    /\ ret.pre.audio_chunk_offs + Unwrap(ret.v) = DataChunk.size

SkipUnbounded ==
    ret.op \in {"to_next_chunk", "to_previous_chunk"} /\ ret.arg.ch_size = -1

(***************************************************************************)
(* C16. to_next_chunk and to_previous_chunk called with a header of size   *)
(* -1 fail with a typed error (UnboundedChunkRead) returned to the caller  *)
(* and leave the position unchanged.                                       *)
(***************************************************************************)
C16_UnboundedSkipIsAnError ==
    SkipUnbounded =>
        ret.status = "err" /\ ret.err = "UnboundedChunkRead" /\ pos = ret.pre.pos

(***************************************************************************)
(* C16, amended. to_next_chunk and to_previous_chunk called with a header  *)
(* of size -1 panic, as their documentation says: no error is returned,    *)
(* nothing is read or sought, and the position is unchanged.               *)
(***************************************************************************)
C16_UnboundedSkipPanics ==
    SkipUnbounded =>
        ret.status = "panic" /\ obj = "dead" /\ io = <<>> /\ pos = ret.pre.pos

C16_Witness ==
    /\ SkipUnbounded
    /\ ret.op = "to_previous_chunk" /\ ret.status = "panic"
    /\ hist.prev.op = "read_chunk_header" /\ hist.prev.v = ret.arg

(***************************************************************************)
(* C17. seek_to_packet(t) with t the current cursor moves the position by  *)
(* zero bytes and leaves the cursor and the body offset unchanged, for     *)
(* constant-size and table-driven readers and every cursor value.          *)
(***************************************************************************)
C17_SeekToCurrentIsNoOp ==
    (ret.op = "seek_to_packet" /\ ret.arg = ret.pre.packet_idx) =>
        /\ ret.status = "ok"
        /\ pos = ret.pre.pos
        /\ rd.packet_idx = ret.pre.packet_idx
        /\ rd.audio_chunk_offs = ret.pre.audio_chunk_offs

(***************************************************************************)
(* read_vlq on its own: the bytes are the variable-length encoding of a    *)
(* 64-bit value followed by other bytes, or a run of continuation bytes.   *)
(* layout holds what the bytes were made from.                             *)
(***************************************************************************)
MaxTrail == 1
MaxRun == 11

\* the u64 with exactly the bits of S set (bit 0 = least significant)
FromBits(S) == [i \in 1..U64_BITS |-> IF (U64_BITS - i) \in S THEN 1 ELSE 0]

BitSets ==
    {{}} \cup {{s, t} : s, t \in 0..(U64_BITS - 1)}
         \cup {0..s : s \in 0..(U64_BITS - 1)}
         \cup {{k \in 0..s : k % 2 = s % 2} : s \in 0..(U64_BITS - 1)}

\* the big-endian base-128 encoding of a u64: ten groups of seven bits (the
\* first holds bit 63 alone), leading zero groups dropped, the continuation
\* bit set on every byte but the last
Septet(v, g) ==
    LET b(j) == IF 7 * (g - 1) + j - 6 >= 1 THEN v[7 * (g - 1) + j - 6] ELSE 0
    IN 64 * b(1) + 32 * b(2) + 16 * b(3) + 8 * b(4) + 4 * b(5) + 2 * b(6) + b(7)

RECURSIVE StripZeros(_)
StripZeros(d) == IF Len(d) = 1 \/ d[1] # 0 THEN d ELSE StripZeros(Tail(d))

EncodeVlq(v) ==
    LET d == StripZeros([g \in 1..10 |-> Septet(v, g)])
    IN [i \in 1..Len(d) |-> IF i < Len(d) THEN 128 + d[i] ELSE d[i]]

TrailChoices == UNION {[1..n -> {0, 129}] : n \in 0..MaxTrail}

RunChoices ==
    {[i \in 1..k |-> c] \o t : k \in 0..MaxRun, c \in {128, 213, 255},
                               t \in {<<>>, <<0>>, <<127>>, <<127, 129>>}}

VlqInit ==
    /\ \/ \E S \in BitSets, t \in TrailChoices :
            /\ layout = [kind |-> "value", v |-> FromBits(S)]
            /\ file = EncodeVlq(FromBits(S)) \o t
       \/ \E bs \in RunChoices :
            /\ layout = [kind |-> "run", v |-> U64Zero]
            /\ file = bs
    /\ pos = 0
    /\ obj = "bytes"
    /\ pc = ""
    /\ scan = NoScan
    /\ fcr = NoFcr
    /\ rd = NoReader
    /\ ret = NoRet
    /\ io = <<>>
    /\ hist = NoHist

\* read_vlq(&mut rdr) on a cursor over the bytes
ReadVlq ==
    /\ obj = "bytes"
    /\ ret.op = ""
    /\ \E r \in {read_vlq(file, pos)} :
        /\ ret' = [NoRet EXCEPT !.op = "read_vlq", !.status = r.status, !.err = r.err,
                                !.v = IF r.status = "ok" THEN r.v[1] ELSE <<>>,
                                !.pre = [NoPre EXCEPT !.pos = pos]]
        /\ pos' = IF r.status = "ok" THEN r.v[2] ELSE Len(file)
    /\ UNCHANGED <<file, layout, obj, pc, scan, fcr, rd, io, hist>>

VlqNext == ReadVlq

VlqSpec == VlqInit /\ [][VlqNext]_vars

(***************************************************************************)
(* C18. For every u64 value v below 2^63 (the values that encode in at     *)
(* most 9 bytes), read_vlq on the base-128 continuation-bit encoding of v  *)
(* returns v and consumes exactly the encoded bytes, leaving the bytes     *)
(* that follow unread.                                                     *)
(***************************************************************************)
C18_VlqRoundTrip ==
    (ret.op = "read_vlq" /\ layout.kind = "value" /\ layout.v[1] = 0) =>
        /\ Len(EncodeVlq(layout.v)) <= 9
        /\ ret.status = "ok"
        /\ ret.v = layout.v
        /\ pos = Len(EncodeVlq(layout.v))

C18_Witness ==
    /\ ret.op = "read_vlq"
    /\ layout.kind = "value"
    /\ layout.v[2] = 1
    /\ layout.v[U64_BITS] = 1
    /\ ret.status = "ok"
    /\ ret.v = layout.v
    /\ pos = 9
    /\ Len(file) = 10

(***************************************************************************)
(* C19. read_vlq on bytes whose continuation bit does not clear within     *)
(* the first 10 bytes fails with MalformedVlq: it consumes no byte past    *)
(* the cap and returns no value.                                           *)
(***************************************************************************)
C19_CapIsEnforced ==
    (/\ ret.op = "read_vlq"
     /\ Len(file) >= 10
     /\ \A i \in 1..10 : file[i] >= 128) =>
        /\ ret.status = "err"
        /\ ret.err = "MalformedVlq"
        /\ pos <= 10

(***************************************************************************)
(* decode_chunk on an Info chunk's content on its own: the bytes are an    *)
(* entry count followed by any bytes, or fewer than the count's four.      *)
(***************************************************************************)
MaxEntries == 2
MaxInfoLen == 5

\* NUL, 'A', and the bytes of U+00E9: a lead byte and a continuation byte
InfoBytes == {0, 65, 195, 169}

InfoBodies == UNION {[1..n -> InfoBytes] : n \in 0..MaxInfoLen}

InfoInit ==
    /\ \/ \E n \in 0..MaxEntries, b \in InfoBodies :
            /\ layout = [kind |-> "info", count |-> n, strings |-> b]
            /\ file = BE(n, 4) \o b
       \/ \E k \in 0..3 :
            /\ layout = [kind |-> "short", count |-> 0, strings |-> <<>>]
            /\ file = SubSeq(BE(1, 4), 1, k)
    /\ pos = 0
    /\ obj = "content"
    /\ pc = ""
    /\ scan = NoScan
    /\ fcr = NoFcr
    /\ rd = NoReader
    /\ ret = NoRet
    /\ io = <<>>
    /\ hist = NoHist

\* decode_chunk(ChunkType::Info, chunk_content)
DecodeInfo ==
    /\ obj = "content"
    /\ ret.op = ""
    /\ \E r \in {decode_chunk(Named("Info"), file)} :
        ret' = [NoRet EXCEPT !.op = "decode_chunk", !.status = r.status, !.err = r.err,
                             !.v = r.v]
    /\ UNCHANGED <<file, layout, pos, obj, pc, scan, fcr, rd, io, hist>>

InfoNext == DecodeInfo

InfoSpec == InfoInit /\ [][InfoNext]_vars

\* the offsets of the NUL bytes among the bytes b
Nuls(b) == {i \in 1..Len(b) : b[i] = 0}

\* b holds n complete pairs: 2n NUL-terminated strings, each valid UTF-8
\* (a NUL is never part of a longer sequence, so the strings are valid
\* exactly when the bytes up to the last terminator are)
CompletePairs(b, n) ==
    \E z \in 0..Len(b) :
        /\ Cardinality({i \in Nuls(b) : i <= z}) = 2 * n
        /\ z = 0 \/ z \in Nuls(b)
        /\ IsUtf8(SubSeq(b, 1, z))

(***************************************************************************)
(* C20. decode_chunk for an Info chunk fails with an error whenever a key  *)
(* or value is not valid UTF-8 or the body ends before the declared        *)
(* number of null-terminated key/value pairs is complete: no pair is       *)
(* built from a missing or unterminated string.                            *)
(***************************************************************************)
C20_InfoRejectsIncomplete ==
    (/\ ret.op = "decode_chunk"
     /\ layout.kind = "info"
     /\ ~CompletePairs(layout.strings, layout.count)) =>
        ret.status = "err"

(***************************************************************************)
(* ChunkType::from, FormatType::from and decode_chunk on their own: a four *)
(* byte code and a chunk content, which is a body of one of the chunk      *)
(* kinds cut at any length. layout holds the code's bytes.                 *)
(***************************************************************************)
MaxDescs == 1

\* the bytes of the four-character codes of enums.rs, as their comments spell them
ChunkCodes ==
    {<<100, 101, 115, 99>>, <<100, 97, 116, 97>>, <<112, 97, 107, 116>>,
     <<99, 104, 97, 110>>, <<107, 117, 107, 105>>, <<115, 116, 114, 103>>,
     <<109, 97, 114, 107>>, <<114, 101, 103, 110>>, <<105, 110, 115, 116>>,
     <<109, 105, 100, 105>>, <<111, 118, 118, 119>>, <<112, 101, 97, 107>>,
     <<101, 100, 99, 116>>, <<105, 110, 102, 111>>, <<117, 109, 105, 100>>,
     <<117, 117, 105, 100>>, <<102, 114, 101, 101>>}

FormatCodes ==
    {<<108, 112, 99, 109>>, <<105, 109, 97, 52>>, <<97, 97, 99, 32>>, <<77, 65, 67, 51>>,
     <<77, 65, 67, 54>>, <<117, 108, 97, 119>>, <<97, 108, 97, 119>>, <<46, 109, 112, 49>>,
     <<46, 109, 112, 50>>, <<46, 109, 112, 51>>, <<97, 108, 97, 99>>}

\* codes of neither registry: zero, neighbours of reserved codes, "stBg", the
\* largest code whose first byte is below 128
OtherCodes ==
    {<<0, 0, 0, 0>>, <<100, 101, 115, 100>>, <<68, 69, 83, 67>>, <<99, 115, 101, 100>>,
     <<115, 116, 66, 103>>, <<108, 112, 99, 110>>, <<127, 255, 255, 255>>}

Codes == ChunkCodes \cup FormatCodes \cup OtherCodes

ChanBody(n) ==
    BE(0, 4) \o BE(3, 4) \o BE(n, 4) \o [i \in 1..(20 * n) |-> i]

\* the 8-byte field at offset a of c, if it is there, is a small number
SmallField(c, a) ==
    Len(c) >= a + 8 => (\A i \in (a + 1)..(a + 4) : c[i] = 0) /\ c[a + 5] < 128

Prefixes(b) == {SubSeq(b, 1, k) : k \in 0..Len(b)}

Contents ==
    Prefixes(DescBody(2, 1)) \cup Prefixes(BE(2, 4) \o <<17, 18>>) \cup Prefixes(PaktBody(<<3, 200>>))
      \cup UNION {Prefixes(ChanBody(n)) : n \in 0..MaxDescs}
      \cup Prefixes(BE(1, 4) \o <<65, 0, 66, 0>>) \cup {KukiBody(1)}

DecodeInit ==
    /\ \E code \in Codes, c \in Contents :
        /\ ChunkTypeFrom(ReadUnsigned(code)) = Named("PacketTable") =>
                SmallField(c, 0) /\ SmallField(c, 8)
        /\ layout = [kind |-> "code", code |-> code]
        /\ file = c
    /\ pos = 0
    /\ obj = "code"
    /\ pc = ""
    /\ scan = NoScan
    /\ fcr = NoFcr
    /\ rd = NoReader
    /\ ret = NoRet
    /\ io = <<>>
    /\ hist = NoHist

\* ChunkType::from(v) for the code read as a big-endian u32
ChunkTypeFromCall ==
    /\ obj = "code"
    /\ ret.op = ""
    /\ ret' = [NoRet EXCEPT !.op = "ChunkType::from", !.status = "ok",
                            !.v = ChunkTypeFrom(ReadUnsigned(layout.code))]
    /\ UNCHANGED <<file, layout, pos, obj, pc, scan, fcr, rd, io, hist>>

\* FormatType::from(v)
FormatTypeFromCall ==
    /\ obj = "code"
    /\ ret.op = ""
    /\ ret' = [NoRet EXCEPT !.op = "FormatType::from", !.status = "ok",
                            !.v = FormatTypeFrom(ReadUnsigned(layout.code))]
    /\ UNCHANGED <<file, layout, pos, obj, pc, scan, fcr, rd, io, hist>>

\* decode_chunk(ChunkType::from(v), chunk_content)
DecodeChunk ==
    /\ obj = "code"
    /\ ret.op = ""
    /\ \E r \in {decode_chunk(ChunkTypeFrom(ReadUnsigned(layout.code)), file)} :
        ret' = [NoRet EXCEPT !.op = "decode_chunk", !.status = r.status, !.err = r.err,
                             !.v = r.v,
                             !.arg = ChunkTypeFrom(ReadUnsigned(layout.code))]
    /\ UNCHANGED <<file, layout, pos, obj, pc, scan, fcr, rd, io, hist>>

DecodeNext == ChunkTypeFromCall \/ FormatTypeFromCall \/ DecodeChunk

DecodeSpec == DecodeInit /\ [][DecodeNext]_vars

\* the content is too short for the chunk type: the fixed fields are not all
\* there, or the declared channel descriptions or packet lengths are not
TooShort(t, c) ==
    \/ t = Named("AudioDescription") /\ Len(c) < 32
    \/ t = Named("AudioData") /\ Len(c) < 4
    \/ t = Named("ChannelLayout") /\ Len(c) < 12
    \/ /\ t = Named("PacketTable")
       /\ \/ Len(c) < 24
          \/ /\ ReadSigned(SubSeq(c, 1, 8)) >= 0
             /\ Cardinality({i \in 25..Len(c) : c[i] < 128}) < ReadSigned(SubSeq(c, 1, 8))

(***************************************************************************)
(* C21. decode_chunk reports a content that is too short for its chunk     *)
(* type as an error value returned to the caller, never by aborting: an    *)
(* AudioDescription shorter than 32 bytes, an AudioData shorter than 4, a  *)
(* ChannelLayout shorter than 12, a PacketTable with fewer encoded lengths *)
(* than it declares.                                                       *)
(***************************************************************************)
C21_ShortBodyIsAnError ==
    (ret.op = "decode_chunk" /\ TooShort(ret.arg, file)) => ret.status = "err"

\* the CafChunk variant (chunks.rs:36-45) that holds a chunk of type t
VariantOf(t) ==
    CASE t = Named("AudioDescription") -> "Desc"
      [] t = Named("AudioData") -> "AudioDataInMemory"
      [] t = Named("PacketTable") -> "PacketTable"
      [] t = Named("ChannelLayout") -> "ChanLayout"
      [] t = Named("MagicCookie") -> "MagicCookie"
      [] t = Named("Info") -> "Info"

(***************************************************************************)
(* C22. decode_chunk returns UnsupportedChunkType, carrying the type, for  *)
(* exactly the types for which can_decode_chunk_type is false, whatever    *)
(* the content, and produces no chunk for them; for the six supported      *)
(* types it never returns UnsupportedChunkType, and a chunk it produces is *)
(* of the type asked for.                                                  *)
(***************************************************************************)
C22_UnsupportedIffNotDecodable ==
    ret.op = "decode_chunk" =>
        /\ ~can_decode_chunk_type(ret.arg) <=>
               (ret.status = "err" /\ ret.err = "UnsupportedChunkType")
        /\ ~can_decode_chunk_type(ret.arg) => ret.v = <<ret.arg>>
        /\ ret.status = "ok" => can_decode_chunk_type(ret.arg) /\ ret.v.kind = VariantOf(ret.arg)

C22_Witness ==
    /\ ret.op = "decode_chunk"
    /\ ret.arg = Named("Free")
    /\ Len(file) = 32
    /\ ret.status = "err"
    /\ ret.err = "UnsupportedChunkType"
    /\ ret.v = <<Named("Free")>>

\* the reserved four-character codes, as the bytes of their ASCII characters,
\* with the variant each names
ChunkRegistry ==
    {<<<<100, 101, 115, 99>>, "AudioDescription">>, <<<<100, 97, 116, 97>>, "AudioData">>,
     <<<<112, 97, 107, 116>>, "PacketTable">>, <<<<99, 104, 97, 110>>, "ChannelLayout">>,
     <<<<107, 117, 107, 105>>, "MagicCookie">>, <<<<115, 116, 114, 103>>, "Strings">>,
     <<<<109, 97, 114, 107>>, "Marker">>, <<<<114, 101, 103, 110>>, "Region">>,
     <<<<105, 110, 115, 116>>, "Instrument">>, <<<<109, 105, 100, 105>>, "Midi">>,
     <<<<111, 118, 118, 119>>, "Overview">>, <<<<112, 101, 97, 107>>, "Peak">>,
     <<<<101, 100, 99, 116>>, "EditComments">>, <<<<105, 110, 102, 111>>, "Info">>,
     <<<<117, 109, 105, 100>>, "UniqueMaterialIdentifier">>,
     <<<<117, 117, 105, 100>>, "UserDefined">>, <<<<102, 114, 101, 101>>, "Free">>}

FormatRegistry ==
    {<<<<108, 112, 99, 109>>, "LinearPcm">>, <<<<105, 109, 97, 52>>, "AppleIma4">>,
     <<<<97, 97, 99, 32>>, "Mpeg4Aac">>, <<<<77, 65, 67, 51>>, "Mace3">>,
     <<<<77, 65, 67, 54>>, "Mace6">>, <<<<117, 108, 97, 119>>, "Ulaw">>,
     <<<<97, 108, 97, 119>>, "Alaw">>, <<<<46, 109, 112, 49>>, "MpegLayer1">>,
     <<<<46, 109, 112, 50>>, "MpegLayer2">>, <<<<46, 109, 112, 51>>, "MpegLayer3">>,
     <<<<97, 108, 97, 99>>, "AppleLossless">>}

\* the variant a registry gives the code: its name, or Other with the code's value
Lookup(registry, code) ==
    IF \E e \in registry : e[1] = code
    THEN Named((CHOOSE e \in registry : e[1] = code)[2])
    ELSE Other(ReadUnsigned(code))

(***************************************************************************)
(* C23. ChunkType::from and FormatType::from map each reserved four        *)
(* character code, read as the big-endian u32 of its ASCII characters, to  *)
(* its named variant, and every other value v to Other(v).                 *)
(***************************************************************************)
C23_FromFollowsRegistry ==
    /\ ret.op = "ChunkType::from" => ret.v = Lookup(ChunkRegistry, layout.code)
    /\ ret.op = "FormatType::from" => ret.v = Lookup(FormatRegistry, layout.code)

\* the bytes the last next_packet or read_packet_into handed over, if it did
Delivered ==
    IF ret.status # "ok" THEN None
    ELSE IF ret.op = "next_packet" THEN ret.v
    ELSE Some(ret.v)

(***************************************************************************)
(* C24. A successful next_packet or read_packet_into advances the packet   *)
(* cursor by exactly 1 and the body offset by exactly the number of bytes  *)
(* returned or read; a next_packet that returns none, and either call      *)
(* failing with an I/O error, leaves both unchanged: neither ever          *)
(* decreases.                                                              *)
(***************************************************************************)
C24_CursorAndOffsetAdvance ==
    (ret.op \in {"next_packet", "read_packet_into"} /\ ret.status \in {"ok", "err"}) =>
        /\ ret.status = "err" => ret.err = "Io"
        /\ IF IsSome(Delivered)
           THEN /\ rd.packet_idx = ret.pre.packet_idx + 1
                /\ rd.audio_chunk_offs = ret.pre.audio_chunk_offs + Len(Unwrap(Delivered))
                /\ ret.op = "read_packet_into" => Len(Unwrap(Delivered)) = ret.arg
           ELSE /\ rd.packet_idx = ret.pre.packet_idx
                /\ rd.audio_chunk_offs = ret.pre.audio_chunk_offs
        /\ rd.packet_idx >= ret.pre.packet_idx
        /\ rd.audio_chunk_offs >= ret.pre.audio_chunk_offs

C24_Witness ==
    /\ ret.op = "read_packet_into"
    /\ ret.status = "ok"
    /\ hist.next_calls >= 2
    /\ ret.pre.packet_idx = 1
    /\ rd.packet_idx = 2
    /\ rd.audio_chunk_offs = ret.pre.audio_chunk_offs + 3

\* a reader was constructed, and every call on it so far was a next_packet,
\* next_packet_size, get_packet_count or seek_to_packet that succeeded
OnlySuccessfulCalls ==
    /\ obj = "packet_reader"
    /\ pc = "idle"
    /\ hist.read_into = 0
    /\ ~hist.failed

(***************************************************************************)
(* C25. In every state reached from a successful construction by           *)
(* successful next_packet, next_packet_size, get_packet_count and          *)
(* seek_to_packet calls: the position is the audio-data body's start plus  *)
(* the body offset, the body offset is 4 plus the total size of the        *)
(* packets before the cursor, and for a bounded length L >= 4,             *)
(* 4 <= offset <= L.                                                       *)
(***************************************************************************)
C25_PositionOffsetCursorAgree ==
    OnlySuccessfulCalls =>
        /\ pos = DataBodyStart + rd.audio_chunk_offs
        /\ rd.audio_chunk_offs = 4 + PrefixSize(rd, rd.packet_idx)
        /\ rd.audio_chunk_len >= 4 =>
               4 <= rd.audio_chunk_offs /\ rd.audio_chunk_offs <= rd.audio_chunk_len

C25_Witness ==
    /\ OnlySuccessfulCalls
    /\ ret.op = "seek_to_packet"
    /\ ret.arg # ret.pre.packet_idx
    /\ IsSome(rd.packet_table)
    /\ rd.packet_idx = 2
    /\ rd.audio_chunk_offs = 12
    /\ pos = DataBodyStart + 12

(***************************************************************************)
(* read_chunks_to_mem on sources in which one chunk header may hold a      *)
(* negative body size other than -1: the size that leads back to the       *)
(* header of the chunk before. The loop runs to its end once the method is *)
(* called: weak fairness of ScanStep.                                      *)
(***************************************************************************)
LiveOrders == UNION {[1..n -> {"desc", "kuki"}] : n \in 1..2}

\* the negative sizes for chunk i of the bodies bs: 0 stands for none
BackSizes(bs, i) ==
    {0} \cup (IF i > 1 THEN {-(2 * HEADER_LEN + Len(bs[i - 1]))} ELSE {})

ScanLiveInit ==
    /\ \E order \in LiveOrders, i \in 1..2 :
        /\ i <= Len(order)
        /\ \E cs \in {[j \in DOMAIN order |-> MkChunk(order[j], j, <<2, 1>>, 0, FALSE)]} :
           \E back \in BackSizes([j \in DOMAIN cs |-> cs[j].body], i) :
            /\ layout = [j \in DOMAIN cs |->
                            IF j = i /\ back # 0 THEN [cs[j] EXCEPT !.size = back]
                            ELSE cs[j]]
            /\ file = CAF_HEADER_MAGIC \o EncodeChunks(layout)
    /\ pos = 0
    /\ obj = "source"
    /\ pc = "idle"
    /\ scan = NoScan
    /\ fcr = NoFcr
    /\ rd = NoReader
    /\ ret = NoRet
    /\ io = <<>>
    /\ hist = NoHist

ScanLiveNext == New \/ ReadChunksToMemCall \/ ScanStep

ScanLiveSpec == ScanLiveInit /\ [][ScanLiveNext]_vars /\ WF_vars(ScanStep)

(***************************************************************************)
(* C26. On every finite byte source read_chunks_to_mem terminates, with Ok *)
(* once required is empty or with an error once a read runs past the end   *)
(* of the source, for every sequence of chunk headers, also those whose    *)
(* body size is negative and not -1: a call that has entered the loop      *)
(* leaves it.                                                              *)
(***************************************************************************)
C26_ScanTerminates == (pc = "scan") ~> (pc = "idle")

\* a packet reader was constructed (it may have panicked since)
Constructed == rd # NoReader /\ pc = "idle"

\* the case in which the unwrap of next_packet_size and seek_to_packet fails and
\* get_packet_count reaches its "No packet table" panic
NoTableForVariableSize == rd.audio_desc.bytes_per_packet = 0 /\ rd.packet_table = None

(***************************************************************************)
(* C27. In every reader a successful construction produced,                *)
(* bytes_per_packet = 0 implies that a packet table is present, and this   *)
(* stays so under every sequence of operations: the unwrap of the table in *)
(* next_packet_size and seek_to_packet never fails (next_packet_size and   *)
(* next_packet never panic), and get_packet_count never reaches its        *)
(* "No packet table" panic.                                                *)
(***************************************************************************)
C27_TableForVariableSize ==
    Constructed =>
        /\ ~NoTableForVariableSize
        /\ ret.op \in {"next_packet_size", "next_packet"} => ret.status # "panic"
        /\ (ret.op = "get_packet_count" /\ ret.status = "panic") =>
               /\ rd.audio_desc.bytes_per_packet # 0
               /\ rd.audio_chunk_len < 4

C27_Witness ==
    /\ Constructed
    /\ rd.audio_desc.bytes_per_packet = 0
    /\ rd.audio_desc.frames_per_packet # 0
    /\ IsSome(rd.packet_table)
    /\ scan.caller = "fcr2"
    /\ ret.op = "get_packet_count"
    /\ ret.status = "ok"
    /\ hist.disturbed

====
